---- MODULE Spec2Model ----
(***************************************************************************)
(* The SSL-over-TCP transport of the agent                                 *)
(* (source/server/win/server_transport_tcp.c): the codec operations that   *)
(* run under remote->lock, the dispatch loop, the reverse-connect retry    *)
(* loops and the transport context.                                        *)
(*                                                                         *)
(* A DWORD/ULONG value is held as the 32-bit two's-complement integer with *)
(* the same bit pattern (0xFFFFFFFF is -1), so that + and - wrap as in C;  *)
(* the unsigned comparisons are ULt, DwordLeZero and DwordLtZero.          *)
(***************************************************************************)
EXTENDS Integers, Sequences, FiniteSets, TLC

(***************************************************************************)
(* Bounds of the model.                                                    *)
(***************************************************************************)
\* worker threads that call the transmit operation
MaxTlsInits == 2
MaxTlsDeinits == 2
NumWorkers == 2
\* transmit calls per worker thread
MaxTxCalls == 1
\* SSL_write calls, over all transmits, whose failure changes what is on the wire:
\* a negative return, or a return of 0 inside the header loop
MaxWriteFaults == 1
\* bytes waiting on the raw socket before the TLS handshake
MaxRaw == 2
\* the last second of the clock
MaxClock == 4
\* bytes of the request-id TLV that packet_add_tlv_string appends
RidTlvLen == 1
\* the latest second at which a retry loop is entered
MaxRetryStart == 1
\* the largest timeouts.retry_total, in seconds
MaxRetryTotal == 2
\* the largest timeouts.retry_wait, in seconds
MaxRetryWait == 2
\* the addresses getaddrinfo resolves for reverse_tcp6
MaxAddresses == 2
\* connect attempts that are counted
MaxCountedAttempts == 2
\* the socket handles of the process are 1..MaxHandles
MaxHandles == 3
MaxPort == 2

\* the second up to which the clock runs while a retry loop is executing
RetryHorizon == MaxRetryStart + MaxRetryTotal

(***************************************************************************)
(* Program constants.                                                      *)
(***************************************************************************)
\* sizeof(TlvHeader): a 32-bit length and a 32-bit type
HeaderSize == 8
PACKET_TLV_TYPE_REQUEST == 0
PACKET_TLV_TYPE_PLAIN_REQUEST == 10
PACKET_TLV_TYPE_PLAIN_RESPONSE == 11
ERROR_SUCCESS == 0
ERROR_NOT_ENOUGH_MEMORY == 8
ERROR_NOT_FOUND == 1168
ERROR_INVALID_DATA == 13
WSAEWOULDBLOCK == 10035
WSAECONNRESET == 10054
\* the length of "GET /123456789 HTTP/1.0\r\n\r\n"
CoverLen == 27

(***************************************************************************)
(* 32-bit arithmetic and byte order.                                       *)
(***************************************************************************)
\* a < b for two DWORDs (unsigned comparison of the bit patterns)
ULt(a, b) ==
    IF (a < 0) = (b < 0) THEN a < b ELSE b < 0

\* "res <= 0" where res is a DWORD: true of 0 only
DwordLeZero(res) == res = 0

\* "res < 0" where res is a DWORD: never true
DwordLtZero(res) == FALSE

\* htonl: the four bytes, most significant first, that hold x in memory
htonl(x) ==
    << (x \div 16777216) % 256, (x \div 65536) % 256, (x \div 256) % 256, x % 256 >>

\* ntohl: the DWORD read from four bytes in network order
ntohl(b) ==
    (IF b[1] >= 128 THEN b[1] - 256 ELSE b[1]) * 16777216
        + b[2] * 65536 + b[3] * 256 + b[4]

(***************************************************************************)
(* Threads.                                                                *)
(***************************************************************************)
Main == << "dispatch", 0 >>
Workers == { << "worker", i >> : i \in 1..NumWorkers }
Threads == {Main} \cup Workers
NoThread == << "none", 0 >>

(***************************************************************************)
(* Packets and the payload cipher.                                         *)
(***************************************************************************)
\* sizeof(header) + payloadLength, as the packet library keeps header.length
HeaderFor(type, payload) ==
    [length |-> htonl(Len(payload) + HeaderSize), type |-> htonl(type)]

NewPacket(type, payload, hasRid) ==
    [header |-> HeaderFor(type, payload), payload |-> payload, hasRid |-> hasRid]

\* packet_get_type: the header's type in host order
packet_get_type(packet) == ntohl(packet.header.type)

\* the 8 header bytes as they lie in memory
HeaderBytes(header) == header.length \o header.type

\* the request-id TLV appended by packet_add_tlv_string (printable characters)
RidTlv == [i \in 1..RidTlvLen |-> 33]

\* packet_add_tlv_string(packet, TLV_TYPE_REQUEST_ID, rid): the TLV is appended
\* and the library updates header.length
packet_add_tlv_string(packet) ==
    [packet EXCEPT !.payload = packet.payload \o RidTlv,
                   !.header.length = htonl(Len(packet.payload) + RidTlvLen + HeaderSize),
                   !.hasRid = TRUE]

\* crypto->handlers.encrypt: a ciphertext one byte longer than the plaintext
CipherPad == 200
Encrypt(plain) == << CipherPad >> \o [i \in 1..Len(plain) |-> (plain[i] + 1) % 256]

\* crypto->handlers.decrypt: fails on a buffer that no encrypt produced
DecryptOk(c) == Len(c) >= 1 /\ c[1] = CipherPad
Decrypt(c) == [i \in 1..(Len(c) - 1) |-> (c[i + 1] + 255) % 256]

\* the packets a caller hands to transmit, and whether with a completion routine
TxInputs ==
    { [packet |-> NewPacket(PACKET_TLV_TYPE_REQUEST, << 65 >>, FALSE), completion |-> TRUE],
      [packet |-> NewPacket(PACKET_TLV_TYPE_PLAIN_REQUEST, << 66, 67 >>, TRUE), completion |-> FALSE],
      [packet |-> NewPacket(PACKET_TLV_TYPE_REQUEST, << >>, TRUE), completion |-> FALSE] }

NoPacket == [header |-> [length |-> << >>, type |-> << >>], payload |-> << >>, hasRid |-> FALSE]

VARIABLES
    pc,         \* each thread's position
    cont,       \* each thread's position after the operation it is in returns
    lock,       \* the thread that holds remote->lock, or NoThread
    lockCnt,    \* per thread: acquires and releases of remote->lock in its current call
    lastError,  \* per thread: the value GetLastError() returns
    cipher,     \* whether remote_get_cipher(remote) returns a crypto context
    wire,       \* the bytes SSL_write has put on the TLS session, in order
    tx,         \* per thread: the locals of its packet_transmit_via_ssl call
    txlog,      \* the transmit calls in the order they acquired remote->lock
    faults,     \* SSL_write failures so far that count against MaxWriteFaults
    sock,       \* the raw socket ctx->fd: bytes waiting on it and its condition
    sslg,       \* the TLS library's process-wide state: ssl_locks and the callbacks
    neg,        \* the locals of server_negotiate_ssl and the handles it stores in ctx
    fl,         \* the locals of server_socket_flush
    poll,       \* the result of the last server_socket_poll
    inbound,    \* the bytes the peer sends on the TLS session and that are not read yet
    rx,         \* the locals of packet_receive_via_ssl
    delivered,  \* the packets packet_receive_via_ssl has handed to its caller
    clock,      \* what current_unix_timestamp() returns
    sigterm,    \* whether dispatchThread->sigterm is signalled
    transport,  \* the Transport's expiration_end and timeouts
    disp,       \* the locals of server_dispatch_tcp and the calls it has made
    retry,      \* the locals of the reverse-connect retry loop
    ctx,        \* transport->ctx: fd, sock_desc, sock_desc_size, bound
    handles,    \* the socket handles open in the process
    reset,      \* what the last transport_reset_tcp did
    bindcall,   \* the locals of bind_tcp and bind_tcp_run and the sockets they made
    stager,     \* the sockets the previous stage left and what the probe did with them
    cfg         \* the URL and the locals of configure_tcp_connection

lockVars == << lock, lockCnt >>
txVars == << tx, txlog, faults >>
tlsVars == << sock, sslg, neg, fl >>
rxVars == << inbound, rx, delivered >>
codecVars == << lockVars, lastError, cipher, wire, txVars, tlsVars, poll, rxVars >>
estVars == << bindcall, stager, cfg >>
connVars == << ctx, handles, reset, estVars >>
auxVars == << clock, sigterm, transport, disp, retry, connVars >>
vars == << pc, cont, lock, lockCnt, lastError, cipher, wire, tx, txlog, faults,
           sock, sslg, neg, fl, poll, inbound, rx, delivered,
           clock, sigterm, transport, disp, retry, ctx, handles, reset,
           bindcall, stager, cfg >>

(***************************************************************************)
(* remote->lock.                                                           *)
(***************************************************************************)
\* a thread enters a codec operation whose first statement is
\* lock_acquire(remote->lock): it proceeds once the lock is free
lock_acquire(t) ==
    /\ lock = NoThread
    /\ lock' = t
    /\ lockCnt' = [lockCnt EXCEPT ![t] = [acq |-> 1, rel |-> 0]]

\* lock_release(remote->lock)
lock_release(t) ==
    /\ lock' = IF lock = t THEN NoThread ELSE lock
    /\ lockCnt' = [lockCnt EXCEPT ![t].rel = @ + 1]

Goto(t, label) == pc' = [pc EXCEPT ![t] = label]

\* the operation returns to its caller
Return(t) == pc' = [pc EXCEPT ![t] = cont[t]]

(***************************************************************************)
(* packet_transmit_via_ssl                                                 *)
(***************************************************************************)
TxIdle == [packet |-> NoPacket, completion |-> FALSE, registered |-> FALSE,
           idx |-> 0, res |-> 0, call |-> 0, calls |-> 0,
           ret |-> ERROR_SUCCESS, destroyed |-> 0]

\* what one SSL_write of n bytes can return: the bytes taken (a short write takes
\* fewer), 0, or a negative value; once the peer has closed the connection no
\* write takes bytes
SslWriteResults(n, zeroIsFault) ==
    IF sock.state # "open"
    THEN {0} \cup (IF faults < MaxWriteFaults THEN {-1} ELSE {})
    ELSE (1..n)
           \cup (IF zeroIsFault /\ faults >= MaxWriteFaults THEN {} ELSE {0})
           \cup (IF faults < MaxWriteFaults THEN {-1} ELSE {})

\* SSL_write(ctx->ssl, buf + idx, Len(buf) - idx) returning r, for call number k
WireAppend(k, part, buf, idx, r) ==
    IF r > 0
    THEN wire \o [i \in 1..r |-> [call |-> k, part |-> part, val |-> buf[idx + i]]]
    ELSE wire

\* an SSL_write that returns a negative value leaves the socket layer's error code
WriteLastError(t, r) ==
    IF r < 0 THEN [lastError EXCEPT ![t] = WSAECONNRESET] ELSE lastError

\* an entry to transmit that goes on without waiting for remote->lock
TxAcquireNoWait(t) ==
    /\ pc[t] = "idle"
    /\ tx[t].calls < MaxTxCalls
    /\ lock' = t
    /\ lockCnt' = [lockCnt EXCEPT ![t] = [acq |-> 1, rel |-> 0]]
    /\ \E in \in TxInputs :
          tx' = [tx EXCEPT ![t] = [TxIdle EXCEPT !.packet = in.packet,
                                                 !.completion = in.completion,
                                                 !.calls = tx[t].calls + 1,
                                                 !.call = Len(txlog) + 1]]
    /\ txlog' = Append(txlog, [who |-> t, hdr |-> << >>, pay |-> << >>,
                               ok |-> TRUE, done |-> FALSE])
    /\ Goto(t, "tx_rid")
    /\ cont' = [cont EXCEPT ![t] = "idle"]
    /\ UNCHANGED << auxVars, lastError, cipher, wire, faults, tlsVars, poll, rxVars >>

\* a thread calls transport->packet_transmit(remote, packet, completion);
\* line 1134: it waits for remote->lock
TxAcquire(t) ==
    /\ pc[t] = "idle"
    /\ tx[t].calls < MaxTxCalls
    /\ lock_acquire(t)
    /\ \E in \in TxInputs :
          tx' = [tx EXCEPT ![t] = [TxIdle EXCEPT !.packet = in.packet,
                                                 !.completion = in.completion,
                                                 !.calls = tx[t].calls + 1,
                                                 !.call = Len(txlog) + 1]]
    /\ txlog' = Append(txlog, [who |-> t, hdr |-> << >>, pay |-> << >>,
                               ok |-> TRUE, done |-> FALSE])
    /\ Goto(t, "tx_rid")
    /\ cont' = [cont EXCEPT ![t] = "idle"]
    /\ UNCHANGED << auxVars, lastError, cipher, wire, faults, tlsVars, poll, rxVars >>

\* lines 1136-1161: attach a request id when the packet has none, then register
\* the completion routine under it
TxRequestId(t) ==
    /\ pc[t] = "tx_rid"
    /\ LET p == IF tx[t].packet.hasRid THEN tx[t].packet
                ELSE packet_add_tlv_string(tx[t].packet)
       IN tx' = [tx EXCEPT ![t].packet = p,
                           ![t].registered = tx[t].completion /\ p.hasRid]
    /\ Goto(t, "tx_crypt")
    /\ UNCHANGED << auxVars, cont, lockVars, lastError, cipher, wire, txlog, faults, tlsVars, poll, rxVars >>

\* lines 1165-1167: the payload goes through the cipher
TxUsesCipher(t) ==
    /\ cipher
    /\ packet_get_type(tx[t].packet) # PACKET_TLV_TYPE_PLAIN_REQUEST
    /\ packet_get_type(tx[t].packet) # PACKET_TLV_TYPE_PLAIN_RESPONSE

\* an encrypt step that swaps the payload and leaves header.length as it was
TxEncryptedStaleLength(packet) ==
    [packet EXCEPT !.payload = Encrypt(packet.payload)]

\* lines 1169-1186: the packet after a successful encrypt
TxEncrypted(packet) ==
    LET c == Encrypt(packet.payload)
    IN [packet EXCEPT !.payload = c,
                      !.header.length = htonl(Len(c) + HeaderSize)]

\* the frame as the write loops are about to send it
TxLogFrame(t, p) ==
    [txlog EXCEPT ![tx[t].call].hdr = HeaderBytes(p.header),
                  ![tx[t].call].pay = p.payload]

\* lines 1163-1189
TxEncrypt(t) ==
    /\ pc[t] = "tx_crypt"
    /\ \/ /\ TxUsesCipher(t)
          /\ \/ \* encrypt fails: SetLastError(res); break
                /\ tx' = [tx EXCEPT ![t].res = ERROR_INVALID_DATA]
                /\ lastError' = [lastError EXCEPT ![t] = ERROR_INVALID_DATA]
                /\ Goto(t, "tx_finish")
                /\ UNCHANGED txlog
             \/ /\ tx' = [tx EXCEPT ![t].packet = TxEncrypted(tx[t].packet),
                                    ![t].res = ERROR_SUCCESS, ![t].idx = 0]
                /\ txlog' = TxLogFrame(t, TxEncrypted(tx[t].packet))
                /\ Goto(t, "tx_hdr")
                /\ UNCHANGED lastError
       \/ /\ ~TxUsesCipher(t)
          /\ tx' = [tx EXCEPT ![t].idx = 0]
          /\ txlog' = TxLogFrame(t, tx[t].packet)
          /\ Goto(t, "tx_hdr")
          /\ UNCHANGED lastError
    /\ UNCHANGED << auxVars, cont, lockVars, cipher, wire, faults, tlsVars, poll, rxVars >>

\* lines 1190-1205: one pass of the header loop
TxHeaderWrite(t) ==
    /\ pc[t] = "tx_hdr"
    /\ ULt(tx[t].idx, HeaderSize)
    /\ \E r \in SslWriteResults(HeaderSize - tx[t].idx, TRUE) :
          /\ wire' = WireAppend(tx[t].call, "h", HeaderBytes(tx[t].packet.header), tx[t].idx, r)
          /\ lastError' = WriteLastError(t, r)
          /\ faults' = faults + (IF r <= 0 THEN 1 ELSE 0)
          /\ txlog' = [txlog EXCEPT ![tx[t].call].ok = @ /\ r > 0]
          /\ IF DwordLeZero(r)
             THEN /\ tx' = [tx EXCEPT ![t].res = r]
                  /\ Goto(t, "tx_hdr_check")
             ELSE /\ tx' = [tx EXCEPT ![t].res = r, ![t].idx = @ + r]
                  /\ UNCHANGED pc
    /\ UNCHANGED << auxVars, cont, lockVars, cipher, tlsVars, poll, rxVars >>

\* line 1190: the header loop's condition fails
TxHeaderDone(t) ==
    /\ pc[t] = "tx_hdr"
    /\ ~ULt(tx[t].idx, HeaderSize)
    /\ Goto(t, "tx_hdr_check")
    /\ UNCHANGED << auxVars, cont, lockVars, lastError, cipher, wire, txVars, tlsVars, poll, rxVars >>

\* lines 1207-1212
TxHeaderCheck(t) ==
    /\ pc[t] = "tx_hdr_check"
    /\ IF DwordLtZero(tx[t].res)
       THEN Goto(t, "tx_finish") /\ UNCHANGED tx
       ELSE Goto(t, "tx_pay") /\ tx' = [tx EXCEPT ![t].idx = 0]
    /\ UNCHANGED << auxVars, cont, lockVars, lastError, cipher, wire, txlog, faults, tlsVars, poll, rxVars >>

\* lines 1213-1228: one pass of the payload loop
TxPayloadWrite(t) ==
    /\ pc[t] = "tx_pay"
    /\ ULt(tx[t].idx, Len(tx[t].packet.payload))
    /\ \E r \in SslWriteResults(Len(tx[t].packet.payload) - tx[t].idx, FALSE) :
          /\ wire' = WireAppend(tx[t].call, "p", tx[t].packet.payload, tx[t].idx, r)
          /\ lastError' = WriteLastError(t, r)
          /\ faults' = faults + (IF r < 0 THEN 1 ELSE 0)
          /\ txlog' = [txlog EXCEPT ![tx[t].call].ok = @ /\ r > 0]
          /\ IF DwordLtZero(r)
             THEN /\ tx' = [tx EXCEPT ![t].res = r]
                  /\ Goto(t, "tx_pay_check")
             ELSE /\ tx' = [tx EXCEPT ![t].res = r, ![t].idx = @ + r]
                  /\ UNCHANGED pc
    /\ UNCHANGED << auxVars, cont, lockVars, cipher, tlsVars, poll, rxVars >>

\* line 1213: the payload loop's condition fails
TxPayloadDone(t) ==
    /\ pc[t] = "tx_pay"
    /\ ~ULt(tx[t].idx, Len(tx[t].packet.payload))
    /\ Goto(t, "tx_pay_check")
    /\ UNCHANGED << auxVars, cont, lockVars, lastError, cipher, wire, txVars, tlsVars, poll, rxVars >>

\* lines 1230-1236
TxPayloadCheck(t) ==
    /\ pc[t] = "tx_pay_check"
    /\ IF DwordLtZero(tx[t].res)
       THEN UNCHANGED lastError
       ELSE lastError' = [lastError EXCEPT ![t] = ERROR_SUCCESS]
    /\ Goto(t, "tx_finish")
    /\ UNCHANGED << auxVars, cont, lockVars, cipher, wire, txVars, tlsVars, poll, rxVars >>

\* a return that destroys the packet only after a successful transmit
TxFinishKeepsFailedPacket(t) ==
    /\ pc[t] = "tx_finish"
    /\ tx' = [tx EXCEPT ![t] = [TxIdle EXCEPT !.ret = lastError[t],
                                               !.calls = tx[t].calls,
                                               !.destroyed = tx[t].destroyed +
                                    IF lastError[t] = ERROR_SUCCESS THEN 1 ELSE 0]]
    /\ txlog' = [txlog EXCEPT ![tx[t].call].done = TRUE]
    /\ lock_release(t)
    /\ Return(t)
    /\ UNCHANGED << auxVars, cont, lastError, cipher, wire, faults, tlsVars, poll, rxVars >>

\* lines 1239-1246: res = GetLastError(); packet_destroy; lock_release; return res
TxFinish(t) ==
    /\ pc[t] = "tx_finish"
    /\ tx' = [tx EXCEPT ![t] = [TxIdle EXCEPT !.ret = lastError[t],
                                               !.calls = tx[t].calls,
                                               !.destroyed = tx[t].destroyed + 1]]
    /\ txlog' = [txlog EXCEPT ![tx[t].call].done = TRUE]
    /\ lock_release(t)
    /\ Return(t)
    /\ UNCHANGED << auxVars, cont, lastError, cipher, wire, faults, tlsVars, poll, rxVars >>

packet_transmit_via_ssl(t) ==
    \/ TxAcquire(t)
    \/ TxRequestId(t)
    \/ TxEncrypt(t)
    \/ TxHeaderWrite(t)
    \/ TxHeaderDone(t)
    \/ TxHeaderCheck(t)
    \/ TxPayloadWrite(t)
    \/ TxPayloadDone(t)
    \/ TxPayloadCheck(t)
    \/ TxFinish(t)

(***************************************************************************)
(* server_socket_poll                                                      *)
(***************************************************************************)
\* select() on ctx->fd with the poll's timeout: readable, timed out, or an error
SelectResults == {1, 0, -1}

\* line 415
PollAcquire(t) ==
    /\ pc[t] = "poll_call"
    /\ lock_acquire(t)
    /\ Goto(t, "poll_select")
    /\ UNCHANGED << auxVars, cont, lastError, cipher, wire, txVars, tlsVars, poll, rxVars >>

\* lines 417-427: result = select(...); lock_release; return result
PollSelect(t) ==
    /\ pc[t] = "poll_select"
    /\ \E r \in SelectResults : poll' = r
    /\ lock_release(t)
    /\ Return(t)
    /\ UNCHANGED << auxVars, cont, lastError, cipher, wire, txVars, tlsVars, rxVars >>

server_socket_poll(t) == PollAcquire(t) \/ PollSelect(t)

(***************************************************************************)
(* server_socket_flush                                                     *)
(***************************************************************************)
\* line 382: select() with a one second timeout on the raw socket
FlushSelectResults ==
    IF sock.state = "error" THEN {-1}
    ELSE IF sock.raw > 0 \/ sock.state = "closed" THEN {1}
    ELSE {0}

\* line 388: recv() of up to sizeof(buff) bytes: the bytes taken, 0 once the peer
\* has closed, SOCKET_ERROR on a broken socket
FlushRecvResults ==
    IF sock.state = "error" THEN {-1}
    ELSE IF sock.raw > 0 THEN 1..sock.raw
    ELSE IF sock.state = "closed" THEN {0}
    ELSE {}

\* line 368
FlushAcquire(t) ==
    /\ pc[t] = "flush_call"
    /\ lock_acquire(t)
    /\ Goto(t, "flush_select")
    /\ UNCHANGED << auxVars, cont, lastError, cipher, wire, txVars, tlsVars, poll, rxVars >>

\* lines 375-386
FlushSelect(t) ==
    /\ pc[t] = "flush_select"
    /\ \E data \in FlushSelectResults :
          /\ fl' = [fl EXCEPT !.data = data]
          /\ IF data = 0 THEN Goto(t, "flush_release") ELSE Goto(t, "flush_recv")
    /\ UNCHANGED << auxVars, cont, lockVars, lastError, cipher, wire, txVars, sock, sslg, neg,
                    poll, rxVars >>

\* lines 388-396: ret is a DWORD, so SOCKET_ERROR is not 0
FlushRecv(t) ==
    /\ pc[t] = "flush_recv"
    /\ \E ret \in FlushRecvResults :
          /\ fl' = [fl EXCEPT !.ret = ret, !.flushed = @ + (IF ret > 0 THEN ret ELSE 0)]
          /\ sock' = [sock EXCEPT !.raw = @ - (IF ret > 0 THEN ret ELSE 0)]
          /\ IF ret = 0 THEN Goto(t, "flush_release") ELSE Goto(t, "flush_select")
    /\ UNCHANGED << auxVars, cont, lockVars, lastError, cipher, wire, txVars, sslg, neg,
                    poll, rxVars >>

\* line 399
FlushRelease(t) ==
    /\ pc[t] = "flush_release"
    /\ fl' = [fl EXCEPT !.data = 0, !.ret = 0]
    /\ lock_release(t)
    /\ Return(t)
    /\ UNCHANGED << auxVars, cont, lastError, cipher, wire, txVars, sock, sslg, neg, poll, rxVars >>

server_socket_flush(t) ==
    FlushAcquire(t) \/ FlushSelect(t) \/ FlushRecv(t) \/ FlushRelease(t)

(***************************************************************************)
(* server_initialize_ssl, server_destroy_ssl                               *)
(***************************************************************************)
\* line 439
InitSslAcquire(t) ==
    /\ pc[t] = "initssl_call"
    /\ lock_acquire(t)
    /\ Goto(t, "initssl_body")
    /\ UNCHANGED << auxVars, cont, lastError, cipher, wire, txVars, tlsVars, poll, rxVars >>

\* a body whose early return on the failed malloc forgets lock_release
InitSslBodyKeepsLock(t) ==
    /\ pc[t] = "initssl_body"
    /\ \/ /\ sslg' = [sslg EXCEPT !.ssl_locks = "null", !.ret = FALSE]
          /\ UNCHANGED lockVars
       \/ /\ sslg' = [sslg EXCEPT !.ssl_locks = "valid", !.ret = TRUE,
                                  !.arrays = @ + 1, !.callbacks = TRUE]
          /\ lock_release(t)
    /\ Return(t)
    /\ UNCHANGED << auxVars, cont, lastError, cipher, wire, txVars, sock, neg, fl, poll, rxVars >>

\* lines 441-467: malloc of the lock array fails and FALSE is returned, or the
\* locks are created and the five callbacks installed
InitSslBody(t) ==
    /\ pc[t] = "initssl_body"
    /\ \/ sslg' = [sslg EXCEPT !.ssl_locks = "null", !.ret = FALSE]
       \/ sslg' = [sslg EXCEPT !.ssl_locks = "valid", !.ret = TRUE,
                               !.arrays = @ + 1, !.callbacks = TRUE]
    /\ lock_release(t)
    /\ Return(t)
    /\ UNCHANGED << auxVars, cont, lastError, cipher, wire, txVars, sock, neg, fl, poll, rxVars >>

server_initialize_ssl(t) == InitSslAcquire(t) \/ InitSslBody(t)

\* line 482
DestroySslAcquire(t) ==
    /\ pc[t] = "destroyssl_call"
    /\ lock_acquire(t)
    /\ Goto(t, "destroyssl_body")
    /\ UNCHANGED << auxVars, cont, lastError, cipher, wire, txVars, tlsVars, poll, rxVars >>

\* lines 484-503
\* SSL_free of a session already freed (line 484) and the use of a lock array
\* already freed (lines 494-499) are undefined: the call completes or the
\* process faults there; reading ssl_locks[i] through a NULL array faults
DestroySslOutcomes ==
    (IF sslg.ssl_locks # "null" THEN {"done"} ELSE {})
      \cup (IF neg.ssl = "freed" THEN {"fault_session"} ELSE {})
      \cup (IF sslg.ssl_locks # "valid" THEN {"fault_locks"} ELSE {})

DestroySslBody(t) ==
    /\ pc[t] = "destroyssl_body"
    /\ \E outcome \in DestroySslOutcomes :
          CASE outcome = "done" ->
                 /\ neg' = [neg EXCEPT !.ssl = "freed", !.ctx = "freed"]
                 /\ sslg' = [sslg EXCEPT !.ssl_locks = "freed", !.callbacks = FALSE,
                                         !.freed = @ + 1, !.ret = TRUE]
                 /\ lock_release(t)
                 /\ Return(t)
            [] outcome = "fault_session" ->
                 /\ Goto(t, "tls_fault")
                 /\ UNCHANGED << neg, sslg, lockVars >>
            [] OTHER ->
                 /\ neg' = [neg EXCEPT !.ssl = "freed", !.ctx = "freed"]
                 /\ sslg' = [sslg EXCEPT !.callbacks = FALSE]
                 /\ Goto(t, "tls_fault")
                 /\ UNCHANGED lockVars
    /\ UNCHANGED << auxVars, cont, lastError, cipher, wire, txVars, sock, fl, poll, rxVars >>

server_destroy_ssl(t) == DestroySslAcquire(t) \/ DestroySslBody(t)

(***************************************************************************)
(* server_negotiate_ssl                                                    *)
(***************************************************************************)
\* the cover line's bytes
CoverLine == [i \in 1..CoverLen |-> i]

\* line 519
NegotiateAcquire(t) ==
    /\ pc[t] = "negotiate_call"
    /\ lock_acquire(t)
    /\ neg' = [neg EXCEPT !.success = TRUE, !.ret = 0, !.res = "none", !.writes = 0]
    /\ Goto(t, "negotiate_setfd")
    /\ UNCHANGED << auxVars, cont, lastError, cipher, wire, txVars, sock, sslg, fl, poll, rxVars >>

\* lines 523-536: the TLS context and session are created and bound to ctx->fd
NegotiateSetFd(t) ==
    /\ pc[t] = "negotiate_setfd"
    /\ \/ /\ neg' = [neg EXCEPT !.ctx = "live", !.ssl = "live", !.success = FALSE]
          /\ Goto(t, "negotiate_release")
       \/ /\ neg' = [neg EXCEPT !.ctx = "live", !.ssl = "live"]
          /\ Goto(t, "negotiate_connect")
    /\ UNCHANGED << auxVars, cont, lockVars, lastError, cipher, wire, txVars, sock, sslg, fl,
                    poll, rxVars >>

\* lines 538-556: one SSL_connect; want-read and want-write are retried
NegotiateConnect(t) ==
    /\ pc[t] = "negotiate_connect"
    /\ \/ /\ neg' = [neg EXCEPT !.ret = 1]
          /\ Goto(t, "negotiate_write")
       \/ /\ \E r \in {0, -1} : neg' = [neg EXCEPT !.ret = r, !.res = "want"]
          /\ UNCHANGED pc
       \/ /\ \E r \in {0, -1} :
               neg' = [neg EXCEPT !.ret = r, !.res = "fatal", !.success = FALSE]
          /\ Goto(t, "negotiate_release")
    /\ UNCHANGED << auxVars, cont, lockVars, lastError, cipher, wire, txVars, sock, sslg, fl,
                    poll, rxVars >>

\* line 560: what the one SSL_write of the cover line can return
CoverWriteResults == {CoverLen, 1, 0, -1}

\* a cover write that is repeated until SSL_write reports progress
NegotiateWriteRetried(t) ==
    /\ pc[t] = "negotiate_write"
    /\ \E r \in CoverWriteResults :
          /\ neg' = [neg EXCEPT !.ret = r, !.writes = @ + 1]
          /\ wire' = WireAppend(0, "g", CoverLine, 0, r)
          /\ IF r > 0 THEN Goto(t, "negotiate_release") ELSE UNCHANGED pc
    /\ UNCHANGED << auxVars, cont, lockVars, lastError, cipher, txVars, sock, sslg, fl, poll, rxVars >>

\* lines 558-565
NegotiateWrite(t) ==
    /\ pc[t] = "negotiate_write"
    /\ \E r \in CoverWriteResults :
          /\ neg' = [neg EXCEPT !.ret = r, !.writes = @ + 1]
          /\ wire' = WireAppend(0, "g", CoverLine, 0, r)
    /\ Goto(t, "negotiate_release")
    /\ UNCHANGED << auxVars, cont, lockVars, lastError, cipher, txVars, sock, sslg, fl, poll, rxVars >>

\* lines 567-576: lock_release; "ret < 0" compares a DWORD
NegotiateRelease(t) ==
    /\ pc[t] = "negotiate_release"
    /\ neg' = [neg EXCEPT !.success = IF DwordLtZero(neg.ret) THEN FALSE ELSE @,
                          !.res = "none"]
    /\ lock_release(t)
    /\ Return(t)
    /\ UNCHANGED << auxVars, cont, lastError, cipher, wire, txVars, sock, sslg, fl, poll, rxVars >>

server_negotiate_ssl(t) ==
    \/ NegotiateAcquire(t)
    \/ NegotiateSetFd(t)
    \/ NegotiateConnect(t)
    \/ NegotiateWrite(t)
    \/ NegotiateRelease(t)

(***************************************************************************)
(* packet_receive_via_ssl                                                  *)
(***************************************************************************)
\* a frame as the peer sends it
Frame(length, type, payload) == htonl(length) \o htonl(type) \o payload

RxIdle == [headerBytes |-> 0, header |-> << >>, payloadLength |-> 0,
           payloadBytesLeft |-> 0, payload |-> << >>, heap |-> {},
           decrypted |-> FALSE, stream |-> << >>, ret |-> ERROR_SUCCESS]

\* memset(localPacket, 0, sizeof(Packet))
ZeroPacket == [header |-> [length |-> << 0, 0, 0, 0 >>, type |-> << 0, 0, 0, 0 >>],
               payload |-> << >>, hasRid |-> FALSE]

\* what one SSL_read of up to n bytes can return: the bytes taken, 0, or a
\* negative value (SSL_read takes its count as an int: a ULONG count of 2^31 or
\* more is a negative count, for which no byte is read)
SslReadResults(n) ==
    (1..(IF n < 0 THEN 0 ELSE IF n > Len(inbound) THEN Len(inbound) ELSE n)) \cup {0, -1}

\* what GetLastError() returns after an SSL_read that returned no bytes
ReadLastErrors(t) == {lastError[t], WSAEWOULDBLOCK, WSAECONNRESET}

\* line 597
RxAcquire(t) ==
    /\ pc[t] = "recv_call"
    /\ lock_acquire(t)
    /\ rx' = [RxIdle EXCEPT !.stream = inbound]
    /\ Goto(t, "recv_hdr")
    /\ UNCHANGED << auxVars, cont, lastError, cipher, wire, txVars, tlsVars, poll, inbound,
                    delivered >>

\* a header loop that stores every read at the start of the header buffer
RxHeaderReadFromStart(t) ==
    /\ pc[t] = "recv_hdr"
    /\ \E bytesRead \in SslReadResults(HeaderSize - rx.headerBytes) :
          IF bytesRead <= 0
          THEN /\ lastError' = [lastError EXCEPT ![t] = ERROR_NOT_FOUND]
               /\ Goto(t, "recv_finish")
               /\ UNCHANGED << rx, inbound >>
          ELSE /\ rx' = [rx EXCEPT !.headerBytes = @ + bytesRead,
                                   !.header = SubSeq(inbound, 1, bytesRead)]
               /\ inbound' = SubSeq(inbound, bytesRead + 1, Len(inbound))
               /\ IF rx.headerBytes + bytesRead # HeaderSize
                  THEN UNCHANGED pc
                  ELSE Goto(t, "recv_alloc")
               /\ UNCHANGED lastError
    /\ UNCHANGED << auxVars, cont, lockVars, cipher, wire, txVars, tlsVars, poll, delivered >>

\* lines 602-633: one pass of the header loop
RxHeaderRead(t) ==
    /\ pc[t] = "recv_hdr"
    /\ \E bytesRead \in SslReadResults(HeaderSize - rx.headerBytes) :
          IF bytesRead <= 0
          THEN /\ lastError' = [lastError EXCEPT ![t] = ERROR_NOT_FOUND]
               /\ Goto(t, "recv_finish")
               /\ UNCHANGED << rx, inbound >>
          ELSE /\ rx' = [rx EXCEPT !.headerBytes = @ + bytesRead,
                                   !.header = @ \o SubSeq(inbound, 1, bytesRead)]
               /\ inbound' = SubSeq(inbound, bytesRead + 1, Len(inbound))
               /\ IF rx.headerBytes + bytesRead # HeaderSize
                  THEN UNCHANGED pc
                  ELSE Goto(t, "recv_alloc")
               /\ UNCHANGED lastError
    /\ UNCHANGED << auxVars, cont, lockVars, cipher, wire, txVars, tlsVars, poll, delivered >>

\* line 638: payloadLength = ntohl(header.length) - sizeof(TlvHeader), a ULONG
RxPayloadLength(header) == ntohl(SubSeq(header, 1, 4)) - HeaderSize

\* lines 635-646: the payload buffer is allocated, or malloc fails
RxAlloc(t) ==
    /\ pc[t] = "recv_alloc"
    /\ \/ /\ rx' = [rx EXCEPT !.payloadLength = RxPayloadLength(rx.header),
                              !.payloadBytesLeft = RxPayloadLength(rx.header),
                              !.heap = @ \cup {"payload"}]
          /\ Goto(t, "recv_pay")
          /\ UNCHANGED lastError
       \/ /\ rx' = [rx EXCEPT !.payloadLength = RxPayloadLength(rx.header),
                              !.payloadBytesLeft = RxPayloadLength(rx.header)]
          /\ lastError' = [lastError EXCEPT ![t] = ERROR_NOT_ENOUGH_MEMORY]
          /\ Goto(t, "recv_finish")
    /\ UNCHANGED << auxVars, cont, lockVars, cipher, wire, txVars, tlsVars, poll, inbound,
                    delivered >>

\* lines 649-680: one pass of the payload loop
RxPayloadRead(t) ==
    /\ pc[t] = "recv_pay"
    /\ rx.payloadBytesLeft # 0
    /\ \E bytesRead \in SslReadResults(rx.payloadBytesLeft) :
          IF bytesRead <= 0
          THEN /\ \E e \in ReadLastErrors(t) :
                    IF e = WSAEWOULDBLOCK
                    THEN /\ lastError' = [lastError EXCEPT ![t] = e]
                         /\ UNCHANGED pc
                    ELSE /\ lastError' = [lastError EXCEPT ![t] = ERROR_NOT_FOUND]
                         /\ Goto(t, "recv_finish")
               /\ UNCHANGED << rx, inbound >>
          ELSE /\ rx' = [rx EXCEPT !.payloadBytesLeft = @ - bytesRead,
                                   !.payload = @ \o SubSeq(inbound, 1, bytesRead)]
               /\ inbound' = SubSeq(inbound, bytesRead + 1, Len(inbound))
               /\ UNCHANGED << pc, lastError >>
    /\ UNCHANGED << auxVars, cont, lockVars, cipher, wire, txVars, tlsVars, poll, delivered >>

\* lines 693-695: the payload goes through the cipher
RxUsesCipher(localPacket) ==
    /\ cipher
    /\ packet_get_type(localPacket) # PACKET_TLV_TYPE_PLAIN_REQUEST
    /\ packet_get_type(localPacket) # PACKET_TLV_TYPE_PLAIN_RESPONSE

\* lines 711-714: the packet handed to the caller
RxPacketOf(header, payload, payloadLength) ==
    [header |-> [length |-> SubSeq(header, 1, 4), type |-> SubSeq(header, 5, 8)],
     payload |-> payload,
     payloadLength |-> payloadLength]

\* lines 677-718: the payload is complete
RxPacket(t) ==
    /\ pc[t] = "recv_pay"
    /\ rx.payloadBytesLeft = 0
    /\ \/ \* malloc(sizeof(Packet)) fails
          /\ lastError' = [lastError EXCEPT ![t] = ERROR_NOT_ENOUGH_MEMORY]
          /\ UNCHANGED << rx, delivered >>
       \/ /\ RxUsesCipher(ZeroPacket)
          /\ ~DecryptOk(rx.payload)
          /\ rx' = [rx EXCEPT !.heap = @ \cup {"packet"}, !.decrypted = TRUE]
          /\ lastError' = [lastError EXCEPT ![t] = ERROR_INVALID_DATA]
          /\ UNCHANGED delivered
       \/ /\ RxUsesCipher(ZeroPacket)
          /\ DecryptOk(rx.payload)
          /\ rx' = [rx EXCEPT !.payload = Decrypt(rx.payload),
                              !.payloadLength = Len(Decrypt(rx.payload)),
                              !.heap = {}, !.decrypted = TRUE]
          /\ delivered' = Append(delivered,
                 RxPacketOf(rx.header, Decrypt(rx.payload), Len(Decrypt(rx.payload))))
          /\ lastError' = [lastError EXCEPT ![t] = ERROR_SUCCESS]
       \/ /\ ~RxUsesCipher(ZeroPacket)
          /\ rx' = [rx EXCEPT !.heap = {}]
          /\ delivered' = Append(delivered,
                 RxPacketOf(rx.header, rx.payload, rx.payloadLength))
          /\ lastError' = [lastError EXCEPT ![t] = ERROR_SUCCESS]
    /\ Goto(t, "recv_finish")
    /\ UNCHANGED << auxVars, cont, lockVars, cipher, wire, txVars, tlsVars, poll, inbound >>

\* a cleanup that frees only the packet structure
RxFinishKeepsPayload(t) ==
    /\ pc[t] = "recv_finish"
    /\ rx' = [RxIdle EXCEPT !.ret = lastError[t],
                            !.heap = IF lastError[t] # ERROR_SUCCESS
                                     THEN rx.heap \ {"packet"} ELSE rx.heap]
    /\ lock_release(t)
    /\ Return(t)
    /\ UNCHANGED << auxVars, cont, lastError, cipher, wire, txVars, tlsVars, poll, inbound,
                    delivered >>

\* lines 722-739: res = GetLastError(); the buffers are freed on failure
RxFinish(t) ==
    /\ pc[t] = "recv_finish"
    /\ rx' = [RxIdle EXCEPT !.ret = lastError[t],
                            !.heap = IF lastError[t] # ERROR_SUCCESS THEN {} ELSE rx.heap]
    /\ lock_release(t)
    /\ Return(t)
    /\ UNCHANGED << auxVars, cont, lastError, cipher, wire, txVars, tlsVars, poll, inbound,
                    delivered >>

packet_receive_via_ssl(t) ==
    \/ RxAcquire(t)
    \/ RxHeaderRead(t)
    \/ RxAlloc(t)
    \/ RxPayloadRead(t)
    \/ RxPacket(t)
    \/ RxFinish(t)

(***************************************************************************)
(* The session thread's use of the transport: transport_init               *)
(* (configure_tcp_connection, from the flush on), then the operations of   *)
(* the dispatch loop, then transport_deinit (server_destroy_ssl).          *)
(***************************************************************************)
Call(t, op, after) ==
    /\ pc' = [pc EXCEPT ![t] = op]
    /\ cont' = [cont EXCEPT ![t] = after]

\* lines 1100-1101
ConfigureFlush(t) ==
    /\ pc[t] = "idle"
    /\ Call(t, "flush_call", "cfg_flushed")
    /\ UNCHANGED << auxVars, lockVars, lastError, cipher, wire, txVars, tlsVars, poll, rxVars >>

\* lines 1103-1104
ConfigureInitSsl(t) ==
    /\ pc[t] = "cfg_flushed"
    /\ Call(t, "initssl_call", "cfg_inited")
    /\ UNCHANGED << auxVars, lockVars, lastError, cipher, wire, txVars, tlsVars, poll, rxVars >>

\* a tail that calls server_negotiate_ssl whatever server_initialize_ssl returned
ConfigureNegotiateUnchecked(t) ==
    /\ pc[t] = "cfg_inited"
    /\ Call(t, "negotiate_call", "cfg_negotiated")
    /\ UNCHANGED << auxVars, lockVars, lastError, cipher, wire, txVars, tlsVars, poll, rxVars >>

\* lines 1104-1110
ConfigureNegotiate(t) ==
    /\ pc[t] = "cfg_inited"
    /\ IF sslg.ret
       THEN Call(t, "negotiate_call", "cfg_negotiated")
       ELSE Goto(t, "down") /\ UNCHANGED cont
    /\ UNCHANGED << auxVars, lockVars, lastError, cipher, wire, txVars, tlsVars, poll, rxVars >>

\* lines 1110-1115
ConfigureReturn(t) ==
    /\ pc[t] = "cfg_negotiated"
    /\ IF neg.success THEN Goto(t, "up") ELSE Goto(t, "down")
    /\ UNCHANGED << auxVars, cont, lockVars, lastError, cipher, wire, txVars, tlsVars, poll, rxVars >>

\* line 774, line 777 and transport_deinit, taken in any order
SessionCall(t) ==
    /\ pc[t] = "up"
    /\ \/ Call(t, "poll_call", "up")
       \/ Call(t, "recv_call", "up")
       \/ Call(t, "destroyssl_call", "down")
    /\ UNCHANGED << auxVars, lockVars, lastError, cipher, wire, txVars, tlsVars, poll, rxVars >>

\* transport_init is called again on a transport whose earlier call has
\* returned: the establisher succeeds and the tail at lines 1097-1115 runs
TransportInitAgain(t) ==
    /\ pc[t] \in {"up", "down"}
    /\ sslg.arrays < MaxTlsInits
    /\ Goto(t, "idle")
    /\ UNCHANGED << auxVars, cont, lockVars, lastError, cipher, wire, txVars, tlsVars, poll, rxVars >>

\* transport_deinit (line 1271) is called on a transport whose transport_init
\* has returned, TRUE or FALSE
TransportDeinit(t) ==
    /\ pc[t] \in {"up", "down"}
    /\ sslg.freed < MaxTlsDeinits
    /\ Call(t, "destroyssl_call", "down")
    /\ UNCHANGED << auxVars, lockVars, lastError, cipher, wire, txVars, tlsVars, poll, rxVars >>

\* the calls of the transport's init and deinit entries, in any order
TransportCalls(t) ==
    \/ ConfigureFlush(t)
    \/ ConfigureInitSsl(t)
    \/ ConfigureNegotiate(t)
    \/ ConfigureReturn(t)
    \/ TransportInitAgain(t)
    \/ TransportDeinit(t)
    \/ server_socket_flush(t)
    \/ server_initialize_ssl(t)
    \/ server_negotiate_ssl(t)
    \/ server_destroy_ssl(t)

Session(t) ==
    \/ ConfigureFlush(t)
    \/ ConfigureInitSsl(t)
    \/ ConfigureNegotiate(t)
    \/ ConfigureReturn(t)
    \/ SessionCall(t)

Codec(t) ==
    \/ server_socket_flush(t)
    \/ server_initialize_ssl(t)
    \/ server_negotiate_ssl(t)
    \/ server_socket_poll(t)
    \/ packet_receive_via_ssl(t)
    \/ server_destroy_ssl(t)


(***************************************************************************)
(* The clock, the termination event and the peer.                          *)
(***************************************************************************)
\* a second passes
Tick ==
    /\ clock < MaxClock
    /\ clock' = clock + 1
    /\ UNCHANGED << pc, cont, codecVars, sigterm, transport, disp, retry, connVars >>

\* another thread signals dispatchThread->sigterm
Signal ==
    /\ ~sigterm
    /\ sigterm' = TRUE
    /\ UNCHANGED << pc, cont, codecVars, clock, transport, disp, retry, connVars >>

\* the frames a peer sends while the session is dispatched
PeerFrames ==
    { Frame(8, PACKET_TLV_TYPE_REQUEST, << >>),
      Frame(9, PACKET_TLV_TYPE_PLAIN_REQUEST, << 7 >>) }

\* the peer sends its next frame once the last one has been read
PeerSend ==
    /\ inbound = << >>
    /\ inbound' \in PeerFrames
    /\ UNCHANGED << pc, cont, lockVars, lastError, cipher, wire, txVars, tlsVars, poll,
                    rx, delivered, auxVars >>

(***************************************************************************)
(* server_dispatch_tcp                                                     *)
(***************************************************************************)
DispIdle == [running |-> TRUE, result |-> ERROR_SUCCESS, lastPacket |-> 0,
             scheduler |-> "none", teardown |-> << >>, ret |-> ERROR_SUCCESS,
             handledAt |-> -1, idle |-> FALSE, sigSeen |-> FALSE,
             sawPacket |-> FALSE, sawTimeout |-> FALSE]

\* what scheduler_initialize(remote) can return
SchedulerInitResults == {ERROR_SUCCESS, ERROR_NOT_ENOUGH_MEMORY}

\* lines 750-765: the scheduler is brought up, or its error returned at once
DispEnter(t) ==
    /\ pc[t] = "disp_enter"
    /\ \E r \in SchedulerInitResults :
          IF r # ERROR_SUCCESS
          THEN /\ disp' = [disp EXCEPT !.result = r, !.ret = r, !.scheduler = "failed"]
               /\ Goto(t, "disp_returned")
          ELSE /\ disp' = [disp EXCEPT !.result = r, !.scheduler = "up",
                                       !.lastPacket = clock]
               /\ Goto(t, "disp_top")
    /\ UNCHANGED << cont, codecVars, clock, sigterm, transport, retry, connVars >>

\* a loop that never looks at the termination event
DispSigtermIgnored == FALSE

\* line 767: event_poll(dispatchThread->sigterm, 0)
DispSigterm == sigterm

\* lines 765-774: the loop's condition, the termination event, then the poll
DispTop(t) ==
    /\ pc[t] = "disp_top"
    /\ IF ~disp.running
       THEN Goto(t, "disp_leave") /\ UNCHANGED << cont, disp >>
       ELSE /\ disp' = [disp EXCEPT !.sigSeen = sigterm]
            /\ IF DispSigterm
               THEN Goto(t, "disp_leave") /\ UNCHANGED cont
               ELSE Call(t, "poll_call", "disp_polled")
    /\ UNCHANGED << codecVars, clock, sigterm, transport, retry, connVars >>

\* a loop that polls again after a negative poll result
DispPolledAgain(t) ==
    /\ pc[t] = "disp_polled"
    /\ disp' = [disp EXCEPT !.result = poll]
    /\ IF poll > 0 THEN Call(t, "recv_call", "disp_received")
       ELSE IF poll = 0 THEN Goto(t, "disp_timeout") /\ UNCHANGED cont
       ELSE Goto(t, "disp_top") /\ UNCHANGED cont
    /\ UNCHANGED << codecVars, clock, sigterm, transport, retry, connVars >>

\* lines 774-777 and 801-805: result = server_socket_poll(remote, 50000)
DispPolled(t) ==
    /\ pc[t] = "disp_polled"
    /\ disp' = [disp EXCEPT !.result = poll]
    /\ IF poll > 0 THEN Call(t, "recv_call", "disp_received")
       ELSE IF poll = 0 THEN Goto(t, "disp_timeout") /\ UNCHANGED cont
       ELSE Goto(t, "disp_leave") /\ UNCHANGED cont
    /\ UNCHANGED << codecVars, clock, sigterm, transport, retry, connVars >>

\* line 777: result = packet_receive_via_ssl(remote, &packet)
DispReceiveResult(polled, received) == received

\* lines 777-782
DispReceived(t) ==
    /\ pc[t] = "disp_received"
    /\ disp' = [disp EXCEPT !.result = DispReceiveResult(disp.result, rx.ret)]
    /\ IF DispReceiveResult(disp.result, rx.ret) # ERROR_SUCCESS
       THEN Goto(t, "disp_leave")
       ELSE Goto(t, "disp_handle")
    /\ UNCHANGED << cont, codecVars, clock, sigterm, transport, retry, connVars >>

\* line 783: running = command_handle(remote, packet); the handler owns the packet
DispHandle(t) ==
    /\ pc[t] = "disp_handle"
    /\ \E running \in BOOLEAN :
          disp' = [disp EXCEPT !.running = running, !.handledAt = clock,
                               !.sawPacket = TRUE]
    /\ delivered' = Tail(delivered)
    /\ Goto(t, "disp_reset_timer")
    /\ UNCHANGED << cont, lockVars, lastError, cipher, wire, txVars, tlsVars, poll,
                    inbound, rx, clock, sigterm, transport, retry, connVars >>

\* lines 786-788: lastPacket = current_unix_timestamp()
DispResetTimer(t) ==
    /\ pc[t] = "disp_reset_timer"
    /\ disp' = [disp EXCEPT !.lastPacket = clock]
    /\ Goto(t, "disp_top")
    /\ UNCHANGED << cont, codecVars, clock, sigterm, transport, retry, connVars >>

\* a timeout test that looks at the session's expiry only
DispExpiredOnly(now, lastPacket) == now > transport.expiration_end

\* line 793: the condition under which a poll timeout ends the session
DispTimedOut(now, lastPacket) ==
    now > transport.expiration_end \/ (now - lastPacket) > transport.timeouts.comms

\* lines 789-800: the poll timed out
DispTimeout(t) ==
    /\ pc[t] = "disp_timeout"
    /\ IF DispTimedOut(clock, disp.lastPacket)
       THEN /\ disp' = [disp EXCEPT !.result = ERROR_SUCCESS, !.sawTimeout = TRUE,
                           !.idle = (clock - disp.lastPacket) > transport.timeouts.comms]
            /\ Goto(t, "disp_leave")
       ELSE /\ disp' = [disp EXCEPT !.sawTimeout = TRUE,
                           !.idle = (clock - disp.lastPacket) > transport.timeouts.comms]
            /\ Goto(t, "disp_top")
    /\ UNCHANGED << cont, codecVars, clock, sigterm, transport, retry, connVars >>

\* a teardown that joins the command threads before the scheduler is destroyed
DispTeardownJoinFirst == << "command_join_threads", "scheduler_destroy" >>

\* lines 808-812: the calls made once the loop is left
DispTeardownCalls == << "scheduler_destroy", "command_join_threads" >>

\* lines 808-816
DispLeave(t) ==
    /\ pc[t] = "disp_leave"
    /\ disp' = [disp EXCEPT !.teardown = @ \o DispTeardownCalls,
                            !.scheduler = "destroyed", !.ret = disp.result]
    /\ Goto(t, "disp_returned")
    /\ UNCHANGED << cont, codecVars, clock, sigterm, transport, retry, connVars >>

server_dispatch_tcp(t) ==
    \/ DispEnter(t)
    \/ DispTop(t)
    \/ DispPolled(t)
    \/ DispReceived(t)
    \/ DispHandle(t)
    \/ DispResetTimer(t)
    \/ DispTimeout(t)
    \/ DispLeave(t)

(***************************************************************************)
(* The reverse-connect retry loops: reverse_tcp_run, and the loop of       *)
(* reverse_tcp6 over the resolved addresses.                               *)
(***************************************************************************)
\* SOCKET_ERROR, as connect() returns it
SOCKET_ERROR == -1

RetryIdle == [kind |-> "reverse_tcp_run", addresses |-> 1, address |-> 1,
              start |-> 0, result |-> ERROR_SUCCESS, attempts |-> 0, wake |-> 0,
              expired |-> FALSE, spent |-> FALSE, connected |-> FALSE,
              closed |-> FALSE, ret |-> ERROR_SUCCESS]

\* a second passes while a connection is being established: up to the horizon, and
\* through any Sleep in progress
RetryTick ==
    /\ pc[Main] \in {"retry_connect", "retry_expiry", "retry_sleep", "retry_out"}
    /\ clock < RetryHorizon \/ (pc[Main] = "retry_sleep" /\ clock < retry.wake)
    /\ clock' = clock + 1
    /\ UNCHANGED << pc, cont, codecVars, sigterm, transport, disp, retry, connVars >>

\* line 34 and line 142: int start = current_unix_timestamp()
RetryEnter(t) ==
    /\ pc[t] = "retry_enter"
    /\ retry' = [retry EXCEPT !.start = clock]
    /\ Goto(t, "retry_connect")
    /\ UNCHANGED << cont, codecVars, clock, sigterm, transport, disp, connVars >>

\* what connect() can return
ConnectResults == {0, SOCKET_ERROR}

\* lines 37-41, and lines 146-158 for one address of the list: one connect attempt
RetryConnect(t) ==
    /\ pc[t] = "retry_connect"
    /\ \E r \in ConnectResults :
          /\ IF r # SOCKET_ERROR
             THEN IF retry.kind = "reverse_tcp6"
                  THEN /\ retry' = [retry EXCEPT
                              !.result = r, !.connected = TRUE, !.ret = ERROR_SUCCESS,
                              !.attempts = IF @ < MaxCountedAttempts THEN @ + 1 ELSE @]
                       /\ Goto(t, "retry_returned")
                  ELSE /\ retry' = [retry EXCEPT
                              !.result = r, !.connected = TRUE,
                              !.attempts = IF @ < MaxCountedAttempts THEN @ + 1 ELSE @]
                       /\ Goto(t, "retry_out")
             ELSE IF retry.address < retry.addresses
                  THEN /\ retry' = [retry EXCEPT
                              !.result = r, !.address = @ + 1,
                              !.attempts = IF @ < MaxCountedAttempts THEN @ + 1 ELSE @]
                       /\ UNCHANGED pc
                  ELSE /\ retry' = [retry EXCEPT
                              !.result = r, !.address = 1,
                              !.attempts = IF @ < MaxCountedAttempts THEN @ + 1 ELSE @]
                       /\ Goto(t, "retry_expiry")
    /\ UNCHANGED << cont, codecVars, clock, sigterm, transport, disp, connVars >>

\* an expiry test that lets the second of the expiry itself pass
RetryExpiredLate(now, expiry) == now > expiry

\* lines 44 and 161: current_unix_timestamp() >= expiry
RetryExpired(now, expiry) == now >= expiry

\* lines 43-50 and 160-167: the session's expiry is checked after a failed attempt,
\* then the thread sleeps for retryWait seconds
RetryExpiry(t) ==
    /\ pc[t] = "retry_expiry"
    /\ IF RetryExpired(clock, transport.expiration_end)
       THEN /\ retry' = [retry EXCEPT !.expired = clock >= transport.expiration_end]
            /\ Goto(t, "retry_out")
       ELSE /\ retry' = [retry EXCEPT !.expired = clock >= transport.expiration_end,
                                      !.wake = clock + transport.timeouts.retry_wait]
            /\ Goto(t, "retry_sleep")
    /\ UNCHANGED << cont, codecVars, clock, sigterm, transport, disp, connVars >>

\* lines 51 and 168: ((DWORD)current_unix_timestamp() - (DWORD)start) < retryTotal
RetryBudgetLeft(now, start, retryTotal) == ULt(now - start, retryTotal)

\* lines 50-51 and 167-168: the Sleep is over and the loop's condition is evaluated
RetryWhile(t) ==
    /\ pc[t] = "retry_sleep"
    /\ clock >= retry.wake
    /\ IF RetryBudgetLeft(clock, retry.start, transport.timeouts.retry_total)
       THEN /\ retry' = [retry EXCEPT
                   !.spent = clock - retry.start >= transport.timeouts.retry_total]
            /\ Goto(t, "retry_connect")
       ELSE /\ retry' = [retry EXCEPT
                   !.spent = clock - retry.start >= transport.timeouts.retry_total]
            /\ Goto(t, "retry_out")
    /\ UNCHANGED << cont, codecVars, clock, sigterm, transport, disp, connVars >>

\* lines 53-58: reverse_tcp_run closes the socket when the last connect failed;
\* lines 170-173: reverse_tcp6 closes it whenever the loop is left
RetryOut(t) ==
    /\ pc[t] = "retry_out"
    /\ retry' = [retry EXCEPT
           !.closed = retry.kind = "reverse_tcp6" \/ retry.result = SOCKET_ERROR,
           !.ret = retry.result]
    /\ Goto(t, "retry_returned")
    /\ UNCHANGED << cont, codecVars, clock, sigterm, transport, disp, connVars >>

reverse_connect(t) ==
    \/ RetryEnter(t)
    \/ RetryConnect(t)
    \/ RetryExpiry(t)
    \/ RetryWhile(t)
    \/ RetryOut(t)

(***************************************************************************)
(* transport->ctx and the sockets: the staged hand-over, transport_reset   *)
(* and the reconnect from the captured address.                            *)
(***************************************************************************)
HandleStep == 4
NumCandidates == 16

\* socket handles are multiples of HandleStep
Handles == { HandleStep * k : k \in 1..MaxHandles }

Ports == 1..MaxPort

\* what the socket layer knows of a handle: a listening socket with its local
\* address, a connected socket with its local and its peer's address, or not a
\* socket at all
NotASocket == [listening |-> FALSE, family |-> "none", port |-> 0, peer |-> 0]
SocketKinds ==
    { [listening |-> TRUE, family |-> f, port |-> p, peer |-> 0] :
        f \in {"AF_INET", "AF_INET6"}, p \in Ports }
      \cup { [listening |-> FALSE, family |-> f, port |-> p, peer |-> q] :
               f \in {"AF_INET", "AF_INET6"}, p \in Ports, q \in Ports }

\* memset(ctx, 0, sizeof(TcpTransportContext)) in transport_create_tcp
NoAddress == [family |-> "none", port |-> 0, side |-> "none", socket |-> 0]
ZeroCtx == [fd |-> 0, sock_desc |-> NoAddress, sock_desc_size |-> 0, bound |-> FALSE]

ResetNone == [done |-> FALSE, before |-> ZeroCtx, scratch |-> 0, leaked |-> FALSE]

\* before the probe: no socket handed over, nothing closed
NoStager == [sock |-> 0, info |-> [h \in Handles |-> NotASocket],
             before |-> {}, closed |-> 0]

\* the size getsockname/getpeername report for an address of the family
SockDescSize(family) == IF family = "AF_INET" THEN 16 ELSE 28

\* getsockname and getpeername on an open socket
GetSockName(h) ==
    [family |-> stager.info[h].family, port |-> stager.info[h].port,
     side |-> "local", socket |-> h]
GetPeerName(h) ==
    [family |-> stager.info[h].family, port |-> stager.info[h].peer,
     side |-> "peer", socket |-> h]

\* lines 916-929: getsockopt(SO_ACCEPTCONN) succeeds and reports a listener
InferListening(listenSocket) ==
    /\ listenSocket \in handles
    /\ stager.info[listenSocket] # NotASocket
    /\ stager.info[listenSocket].listening

\* lines 946-965: the comparison of the two ports, == for AF_INET (line 949) and
\* != for AF_INET6 (line 959)
InferPortsMatch(family, listenPort, sockPort) ==
    IF family = "AF_INET" THEN listenPort = sockPort ELSE listenPort # sockPort

\* lines 909-966: the loop from candidate i on; the listening socket it stops
\* at, or 0 when it runs out
RECURSIVE InferScan(_, _)
InferScan(name, i) ==
    LET listenSocket == name.socket - i * HandleStep
    IN IF i > NumCandidates THEN 0
       ELSE IF /\ InferListening(listenSocket)
               /\ stager.info[listenSocket].family = name.family
               /\ InferPortsMatch(name.family, stager.info[listenSocket].port, name.port)
            THEN listenSocket
            ELSE InferScan(name, i + 1)

\* an else branch that leaves the socket's own name in sock_desc
InferKeepsSockName(h) == GetSockName(h)

\* lines 983-984: the address captured when no listener was found
InferPeerName(h) == GetPeerName(h)

\* lines 1081-1087 and infer_staged_connection_type, lines 872-996: the stager's
\* socket is stored, the handles below it are probed for the listener it was
\* accepted on, and the listener's address (the listener is closed) or the
\* peer's address is captured
infer_staged_connection_type(t) ==
    /\ pc[t] = "conn_new"
    /\ ctx.sock_desc_size = 0
    /\ LET listenSocket == InferScan(GetSockName(stager.sock), 1)
           bound == listenSocket # 0
           sock_desc == IF bound THEN GetSockName(listenSocket)
                        ELSE InferPeerName(stager.sock)
       IN /\ ctx' = [fd |-> stager.sock,
                     sock_desc |-> sock_desc,
                     sock_desc_size |-> SockDescSize(sock_desc.family),
                     bound |-> bound]
          /\ handles' = handles \ {listenSocket}
          /\ stager' = [stager EXCEPT !.before = handles, !.closed = listenSocket]
    /\ Goto(t, "conn_up")
    /\ UNCHANGED << cont, codecVars, clock, sigterm, transport, disp, retry, reset,
                    bindcall, cfg >>

\* the value found in the fd field of a freshly malloc'ed TcpTransportContext
ScratchFds == {0} \cup Handles

\* transport_reset_tcp, lines 853-864: ctx is a new, uninitialised block (line
\* 857), so closesocket(ctx->fd) closes whatever handle the block happens to
\* name and ctx->fd = 0 is stored in the block; transport->ctx is not touched
\* and the block is never freed.  When malloc returns NULL the read of ctx->fd
\* faults.
transport_reset_tcp(t) ==
    /\ pc[t] = "conn_up"
    /\ \/ \E scratch \in ScratchFds :
             /\ handles' = handles \ {scratch}
             /\ reset' = [done |-> TRUE, before |-> ctx, scratch |-> scratch,
                          leaked |-> TRUE]
             /\ Goto(t, "conn_reset")
       \/ /\ Goto(t, "conn_fault")
          /\ UNCHANGED << handles, reset >>
    /\ UNCHANGED << cont, codecVars, clock, sigterm, transport, disp, retry, ctx, estVars >>

\* lines 1053-1079: transport_init after a reset connects again from the captured
\* address: bind, listen and accept on a new listening socket, or a new socket
\* that connects out
ConnReconnect(t) ==
    /\ pc[t] = "conn_reset"
    /\ ctx.sock_desc_size > 0
    /\ \/ \* no handle is left, or bind/listen/accept/connect fails
          /\ ctx' = [ctx EXCEPT !.fd = IF ctx.bound THEN @ ELSE 0]
          /\ UNCHANGED << pc, handles >>
       \/ \E s \in Handles \ handles :
             /\ ctx' = [ctx EXCEPT !.fd = s]
             /\ handles' = handles \cup {s}
             /\ Goto(t, "conn_up")
    /\ reset' = [reset EXCEPT !.done = FALSE]
    /\ UNCHANGED << cont, codecVars, clock, sigterm, transport, disp, retry, estVars >>

Connection(t) ==
    \/ infer_staged_connection_type(t)
    \/ transport_reset_tcp(t)
    \/ ConnReconnect(t)

(***************************************************************************)
(* bind_tcp and bind_tcp_run: listen for the peer and accept one           *)
(* connection.                                                             *)
(***************************************************************************)
INVALID_SOCKET == -1

\* what WSAGetLastError() returns after a failed Winsock call
WsaErrors == {WSAEWOULDBLOCK, WSAECONNRESET}

BindIdle == [v4Fallback |-> FALSE, listenSocket |-> 0, result |-> ERROR_SUCCESS,
             socketBuffer |-> 0, created |-> {}, accepted |-> 0, ret |-> ERROR_SUCCESS]

\* socket() and accept(): a handle that is not in use, or INVALID_SOCKET
NewSockets == (Handles \ handles) \cup {INVALID_SOCKET}

\* lines 224-233: the output buffer is cleared and Winsock started
BindEnter(t) ==
    /\ pc[t] = "bind_enter"
    /\ \/ /\ bindcall' = [BindIdle EXCEPT !.socketBuffer = 0]
          /\ Goto(t, "bind_sockets")
       \/ \E e \in WsaErrors :
             /\ bindcall' = [BindIdle EXCEPT !.socketBuffer = 0, !.ret = e]
             /\ Goto(t, "bind_returned")
    /\ UNCHANGED << cont, codecVars, clock, sigterm, transport, disp, retry,
                    ctx, handles, reset, stager, cfg >>

\* lines 238-265: the IPv6 listening socket; without it, or when IPV6_V6ONLY
\* cannot be cleared (the socket is closed again), the listening socket is a
\* new IPv4 socket, which socket() may fail to make too
BindSockets(t) ==
    /\ pc[t] = "bind_sockets"
    /\ \E s6 \in NewSockets :
          \/ /\ s6 # INVALID_SOCKET
             /\ bindcall' = [bindcall EXCEPT !.listenSocket = s6, !.created = {s6}]
             /\ handles' = handles \cup {s6}
          \/ \E s4 \in NewSockets :
                /\ bindcall' = [bindcall EXCEPT
                                  !.v4Fallback = TRUE,
                                  !.listenSocket = s4,
                                  !.created = {s6, s4} \ {INVALID_SOCKET}]
                /\ handles' = (handles \cup {s4}) \ {INVALID_SOCKET}
    /\ Goto(t, "bind_run")
    /\ UNCHANGED << cont, codecVars, clock, sigterm, transport, disp, retry,
                    ctx, reset, stager, cfg >>

\* bind_tcp_run, lines 186-210: bind(), listen() and accept(); the first that
\* fails sets result to WSAGetLastError(), and an accepted socket is stored in the
\* output buffer.  bind() fails on a socket that was never made.
BindRun(t) ==
    /\ pc[t] = "bind_run"
    /\ \/ \E e \in WsaErrors :
             /\ bindcall' = [bindcall EXCEPT !.result = e]
             /\ UNCHANGED handles
       \/ /\ bindcall.listenSocket # INVALID_SOCKET
          /\ \E a \in NewSockets \ {INVALID_SOCKET} :
                /\ bindcall' = [bindcall EXCEPT !.socketBuffer = a, !.accepted = a]
                /\ handles' = handles \cup {a}
    /\ Goto(t, "bind_close")
    /\ UNCHANGED << cont, codecVars, clock, sigterm, transport, disp, retry,
                    ctx, reset, stager, cfg >>

\* a bind_tcp_run whose failure paths return without closesocket
BindCloseOnSuccess(t) ==
    /\ pc[t] = "bind_close"
    /\ handles' = IF bindcall.result = ERROR_SUCCESS
                  THEN handles \ {bindcall.listenSocket} ELSE handles
    /\ bindcall' = [bindcall EXCEPT !.ret = bindcall.result]
    /\ Goto(t, "bind_returned")
    /\ UNCHANGED << cont, codecVars, clock, sigterm, transport, disp, retry,
                    ctx, reset, stager, cfg >>

\* lines 213-215: closesocket(listenSocket) on every path, then the result
BindClose(t) ==
    /\ pc[t] = "bind_close"
    /\ handles' = handles \ {bindcall.listenSocket}
    /\ bindcall' = [bindcall EXCEPT !.ret = bindcall.result]
    /\ Goto(t, "bind_returned")
    /\ UNCHANGED << cont, codecVars, clock, sigterm, transport, disp, retry,
                    ctx, reset, stager, cfg >>

bind_tcp(t) ==
    \/ BindEnter(t)
    \/ BindSockets(t)
    \/ BindRun(t)
    \/ BindClose(t)

(***************************************************************************)
(* configure_tcp_connection: the URL decides how the connection is made.   *)
(***************************************************************************)
\* transport->url after wcstombs_s, one element per character
Urls ==
    { << "t", "c", "p", ":", "/", "/", "h", ":", "1" >>,
      << "t", "c", "p", ":", "/", "/", ":", "2" >>,
      << "t", "c", "p", "6", ":", "/", "/", "h", ":", "1", "?", "2" >>,
      << "t", "c", "p", "6", ":", "/", "/", "h", ":", "1" >>,
      << "t", "c", "p", ":", "/", "/", "h" >>,
      << "t", "c", "p", "s", ":", "/", "/", "h", ":", "1" >>,
      << "t", "c", "p" >>,
      << "h", "t", "t", "p", ":", "/", "/", "h", ":", "1" >>,
      << >> }

CfgIdle == [url |-> << >>, captured |-> FALSE, mode |-> "none", host |-> << >>,
            port |-> 0, scope |-> 0, socketHandle |-> 0, result |-> ERROR_SUCCESS]

\* strncmp(asciiUrl, "tcp", 3) == 0
StrNCmpTcp(url) == Len(url) >= 3 /\ SubSeq(url, 1, 3) = << "t", "c", "p" >>

\* strstr(asciiUrl, "//"): the index of the first "//", 0 for NULL
StrStrSlashes(url) ==
    LET at == { i \in 1..(Len(url) - 1) : url[i] = "/" /\ url[i + 1] = "/" }
    IN IF at = {} THEN 0 ELSE CHOOSE i \in at : \A j \in at : i <= j

\* strrchr(asciiUrl + from - 1, c): the index of the last c at or after from,
\* 0 for NULL
StrRChr(url, from, c) ==
    LET at == { i \in from..Len(url) : url[i] = c }
    IN IF at = {} THEN 0 ELSE CHOOSE i \in at : \A j \in at : i >= j

\* atoi and atol on the characters from index from up to, not including, to
RECURSIVE AToI(_, _, _, _)
AToI(url, from, to, acc) ==
    IF from >= to \/ url[from] \notin {"0", "1", "2"} THEN acc
    ELSE AToI(url, from + 1, to,
              10 * acc + (CASE url[from] = "0" -> 0 [] url[from] = "1" -> 1 [] OTHER -> 2))

\* lines 1018-1087: what the call does for a URL and a context.  strstr and
\* strrchr return NULL when the URL has no "//", no ':' or no '?'; the pointer
\* made from NULL is then read or written through, which faults.
ConfigureDirective(url, c) ==
    LET slashes == StrStrSlashes(url)
        pHost == slashes + 2
        colon == StrRChr(url, pHost, ":")
        pPort == colon + 1
        query == StrRChr(url, pHost, "?")
        pScopeId == query + 1
        Dir(mode, host, port, scope) ==
            [mode |-> mode, host |-> host, port |-> port, scope |-> scope]
        Fault == Dir("fault", << >>, 0, 0)
    IN IF StrNCmpTcp(url)
       THEN IF slashes = 0 THEN Fault
            ELSE IF Len(url) >= 4 /\ url[4] = "6"
            THEN IF query = 0 \/ colon = 0 THEN Fault
                 ELSE Dir("reverse_tcp6", SubSeq(url, pHost, colon - 1),
                          AToI(url, pPort, query, 0),
                          AToI(url, pScopeId, Len(url) + 1, 0))
            ELSE IF colon = 0 THEN Fault
                 ELSE IF url[pHost] = ":"
                 THEN Dir("bind_tcp", << >>, AToI(url, pPort, Len(url) + 1, 0), 0)
                 ELSE Dir("reverse_tcp4", SubSeq(url, pHost, colon - 1),
                          AToI(url, pPort, Len(url) + 1, 0), 0)
       ELSE IF c.sock_desc_size > 0
            THEN Dir(IF c.bound THEN "reconnect_bind" ELSE "reconnect_reverse",
                     << >>, 0, 0)
            ELSE Dir("infer", << >>, 0, 0)

\* lines 1004-1087: the branch taken and the first step of the establisher it
\* calls.  reverse_tcp4 (lines 72-84) and reverse_tcp6 (lines 112-139) clear the
\* output buffer, start Winsock, resolve the name and make the socket; the
\* reconnect branches (lines 1058-1072) make the socket themselves.
ConfigureEstablish(t) ==
    /\ pc[t] = "cfg_enter"
    /\ LET d == ConfigureDirective(cfg.url, ctx)
           call == [cfg EXCEPT !.captured = ctx.sock_desc_size > 0, !.mode = d.mode,
                               !.host = d.host, !.port = d.port, !.scope = d.scope]
       IN CASE d.mode = "fault" ->
                 /\ cfg' = call
                 /\ Goto(t, "cfg_fault")
                 /\ UNCHANGED << ctx, handles, retry, bindcall >>
            [] d.mode = "bind_tcp" ->
                 /\ cfg' = call
                 /\ Goto(t, "bind_enter")
                 /\ UNCHANGED << ctx, handles, retry, bindcall >>
            [] d.mode \in {"reverse_tcp4", "reverse_tcp6"} ->
                 /\ ctx' = [ctx EXCEPT !.fd = 0]
                 /\ UNCHANGED bindcall
                 /\ \/ \* WSAStartup, getaddrinfo or socket (IPv6) fails
                       \E e \in WsaErrors :
                          /\ cfg' = [call EXCEPT !.result = e]
                          /\ Goto(t, "est_returned")
                          /\ UNCHANGED << handles, retry >>
                    \/ \* gethostbyname returns NULL, which line 84 reads through
                       /\ d.mode = "reverse_tcp4"
                       /\ cfg' = call
                       /\ Goto(t, "cfg_fault")
                       /\ UNCHANGED << handles, retry >>
                    \/ \E s \in NewSockets, n \in 1..MaxAddresses :
                          /\ d.mode = "reverse_tcp6" => s # INVALID_SOCKET
                          /\ d.mode = "reverse_tcp4" => n = 1
                          /\ cfg' = [call EXCEPT !.socketHandle = s]
                          /\ handles' = (handles \cup {s}) \ {INVALID_SOCKET}
                          /\ retry' = [RetryIdle EXCEPT
                                         !.kind = IF d.mode = "reverse_tcp6"
                                                  THEN "reverse_tcp6"
                                                  ELSE "reverse_tcp_run",
                                         !.addresses = n]
                          /\ Goto(t, "retry_enter")
            [] d.mode = "reconnect_bind" ->
                 \E s \in NewSockets :
                    /\ cfg' = call
                    /\ bindcall' = [BindIdle EXCEPT
                                      !.listenSocket = s,
                                      !.created = {s} \ {INVALID_SOCKET},
                                      !.socketBuffer = ctx.fd]
                    /\ handles' = (handles \cup {s}) \ {INVALID_SOCKET}
                    /\ Goto(t, "bind_run")
                    /\ UNCHANGED << ctx, retry >>
            [] d.mode = "reconnect_reverse" ->
                 \E s \in NewSockets :
                    /\ cfg' = [call EXCEPT !.socketHandle = s]
                    /\ ctx' = [ctx EXCEPT !.fd = s]
                    /\ handles' = (handles \cup {s}) \ {INVALID_SOCKET}
                    /\ retry' = RetryIdle
                    /\ Goto(t, "retry_enter")
                    /\ UNCHANGED bindcall
            [] OTHER ->
                 /\ cfg' = call
                 /\ Goto(t, "conn_new")
                 /\ UNCHANGED << ctx, handles, retry, bindcall >>
    /\ UNCHANGED << cont, codecVars, clock, sigterm, transport, disp, reset, stager >>

\* the establisher has returned: its result and the socket it stored in ctx->fd
\* (lines 91-96, 153, 210, 1073-1076), and lines 1089-1098: FALSE is returned
\* unless the result is ERROR_SUCCESS
ConfigureResult(t) ==
    /\ pc[t] \in {"bind_returned", "retry_returned", "est_returned", "conn_up"}
    /\ cfg.mode # "none"
    /\ LET result == CASE pc[t] = "bind_returned" -> bindcall.ret
                       [] pc[t] = "retry_returned" -> retry.ret
                       [] pc[t] = "est_returned" -> cfg.result
                       [] OTHER -> ERROR_SUCCESS
           fd == CASE pc[t] = "bind_returned" -> bindcall.socketBuffer
                   [] pc[t] = "retry_returned" ->
                        IF result = ERROR_SUCCESS THEN cfg.socketHandle ELSE 0
                   [] OTHER -> ctx.fd
       IN /\ cfg' = [cfg EXCEPT !.result = result]
          /\ ctx' = [ctx EXCEPT !.fd = fd]
          /\ handles' = IF pc[t] = "retry_returned" /\ retry.closed
                        THEN handles \ {cfg.socketHandle} ELSE handles
          /\ IF result # ERROR_SUCCESS THEN Goto(t, "down") ELSE Goto(t, "idle")
    /\ UNCHANGED << cont, codecVars, clock, sigterm, transport, disp, retry, reset,
                    bindcall, stager >>

\* lines 824-831: the transport made by transport_create_tcp is of type
\* METERPRETER_TRANSPORT_SSL, so the context's fd is returned
transport_get_socket_tcp == ctx.fd

configure_tcp_connection(t) ==
    \/ ConfigureEstablish(t)
    \/ ConfigureResult(t)
    \/ bind_tcp(t)
    \/ reverse_connect(t)
    \/ infer_staged_connection_type(t)
    \/ ConfigureFlush(t)
    \/ ConfigureInitSsl(t)
    \/ ConfigureNegotiate(t)
    \/ ConfigureReturn(t)
    \/ server_socket_flush(t)
    \/ server_initialize_ssl(t)
    \/ server_negotiate_ssl(t)

(***************************************************************************)
(* Initial states.                                                         *)
(***************************************************************************)
\* the raw socket when the transport is configured
SockStates ==
    { [raw |-> n, state |-> "open"] : n \in 0..MaxRaw }
      \cup { [raw |-> 0, state |-> "closed"], [raw |-> 0, state |-> "error"] }

\* what the peer sends on the TLS session
InboundStreams ==
    { << >>,
      Frame(9, PACKET_TLV_TYPE_REQUEST, << 7 >>),
      Frame(10, PACKET_TLV_TYPE_REQUEST, Encrypt(<< 7 >>)),
      Frame(9, PACKET_TLV_TYPE_PLAIN_REQUEST, << 7 >>)
        \o Frame(8, PACKET_TLV_TYPE_REQUEST, << >>),
      Frame(4, PACKET_TLV_TYPE_REQUEST, << 7 >>) }

\* the TLS state before transport_init, and once the handshake has succeeded
TlsDown == [success |-> TRUE, ret |-> 0, res |-> "none", writes |-> 0,
            ctx |-> "null", ssl |-> "null"]
TlsUp == [success |-> TRUE, ret |-> 0, res |-> "none", writes |-> 0,
          ctx |-> "live", ssl |-> "live"]

\* the session thread at a label, the worker threads not yet in a call
ThreadsAt(label) ==
    /\ pc = [t \in Threads |-> IF t = Main THEN label ELSE "idle"]
    /\ cont = [t \in Threads |-> "idle"]

CodecInit(ciphers, socks, streams, tls) ==
    /\ lock = NoThread
    /\ lockCnt = [t \in Threads |-> [acq |-> 0, rel |-> 0]]
    /\ lastError = [t \in Threads |-> ERROR_SUCCESS]
    /\ cipher \in ciphers
    /\ wire = << >>
    /\ tx = [t \in Threads |-> TxIdle]
    /\ txlog = << >>
    /\ faults = 0
    /\ sock \in socks
    /\ sslg = [ssl_locks |-> IF tls = TlsUp THEN "valid" ELSE "null",
               callbacks |-> tls = TlsUp,
               arrays |-> IF tls = TlsUp THEN 1 ELSE 0, freed |-> 0,
               ret |-> tls = TlsUp]
    /\ neg = tls
    /\ fl = [data |-> 0, ret |-> 0, flushed |-> 0]
    /\ poll = 0
    /\ inbound \in streams
    /\ rx = RxIdle
    /\ delivered = << >>

\* transport_create_tcp, lines 1255-1282: the timeouts are copied and the
\* context zeroed
TransportInit(ends, comms, totals, waits) ==
    /\ transport \in
         { [expiration_end |-> e,
            timeouts |-> [comms |-> c, retry_total |-> rt, retry_wait |-> rw]] :
              e \in ends, c \in comms, rt \in totals, rw \in waits }
    /\ sigterm = FALSE
    /\ disp = DispIdle

\* what the previous stage leaves: the open handles are sockets of some kind
\* or no sockets, and the one it hands over is a connected socket
Stagers(open) ==
    UNION { { [NoStager EXCEPT !.sock = s, !.info = info] :
                info \in { f \in [Handles -> SocketKinds \cup {NotASocket}] :
                             /\ \A h \in Handles \ open : f[h] = NotASocket
                             /\ f[s] # NotASocket
                             /\ ~f[s].listening } } : s \in open }

ConnInit(sets) ==
    /\ ctx = ZeroCtx
    /\ handles \in sets
    /\ reset = ResetNone
    /\ bindcall = BindIdle
    /\ cfg = CfgIdle

(***************************************************************************)
(* Spec: the session thread configures the transport, polls, receives and  *)
(* shuts TLS down while a worker thread transmits.                         *)
(***************************************************************************)
Worker1 == << "worker", 1 >>

Init ==
    /\ ThreadsAt("idle")
    /\ CodecInit({TRUE}, {[raw |-> 1, state |-> "open"]},
                 {Frame(10, PACKET_TLV_TYPE_REQUEST, Encrypt(<< 7 >>))}, TlsDown)
    /\ clock = 0
    /\ TransportInit({0}, {0}, {0}, {0})
    /\ retry = RetryIdle
    /\ ConnInit({{}})
    /\ stager = NoStager

Next ==
    \/ Session(Main)
    \/ Codec(Main)
    \/ packet_transmit_via_ssl(Worker1)

Spec == Init /\ [][Next]_vars

(***************************************************************************)
(* SpecSession: the session thread alone, over every socket condition and  *)
(* inbound stream.                                                         *)
(***************************************************************************)
InitSession ==
    /\ ThreadsAt("idle")
    /\ CodecInit(BOOLEAN, SockStates, InboundStreams, TlsDown)
    /\ clock = 0
    /\ TransportInit({0}, {0}, {0}, {0})
    /\ retry = RetryIdle
    /\ ConnInit({{}})
    /\ stager = NoStager

NextSession == Session(Main) \/ Codec(Main)

SpecSession == InitSession /\ [][NextSession]_vars

\* the session thread keeps running
FairSession == InitSession /\ [][NextSession]_vars /\ WF_vars(NextSession)

(***************************************************************************)
(* SpecTls: the transport's init and deinit entries called in any order.   *)
(***************************************************************************)
InitTls ==
    /\ ThreadsAt("idle")
    /\ CodecInit({FALSE}, {[raw |-> 1, state |-> "open"]}, {<< >>}, TlsDown)
    /\ clock = 0
    /\ TransportInit({0}, {0}, {0}, {0})
    /\ retry = RetryIdle
    /\ ConnInit({{}})
    /\ stager = NoStager

NextTls == TransportCalls(Main)

SpecTls == InitTls /\ [][NextTls]_vars

(***************************************************************************)
(* SpecTx: the worker threads transmit on an established session.          *)
(***************************************************************************)
InitTx ==
    /\ ThreadsAt("up")
    /\ CodecInit(BOOLEAN, {[raw |-> 0, state |-> "open"], [raw |-> 0, state |-> "closed"]},
                 {<< >>}, TlsUp)
    /\ clock = 0
    /\ TransportInit({0}, {0}, {0}, {0})
    /\ retry = RetryIdle
    /\ ConnInit({{}})
    /\ stager = NoStager

NextTx == \E t \in Workers : packet_transmit_via_ssl(t)

SpecTx == InitTx /\ [][NextTx]_vars

\* every thread inside packet_transmit_via_ssl keeps running
FairTx ==
    InitTx /\ [][NextTx]_vars /\ \A t \in Workers : WF_vars(packet_transmit_via_ssl(t))

(***************************************************************************)
(* SpecDispatch: server_dispatch_tcp on an established session, with the   *)
(* clock, the termination event and a peer that sends frames.              *)
(***************************************************************************)
InitDispatch ==
    /\ ThreadsAt("disp_enter")
    /\ CodecInit({FALSE}, {[raw |-> 0, state |-> "open"]}, {<< >>}, TlsUp)
    /\ clock = 0
    /\ TransportInit({1, MaxClock}, {1, MaxClock}, {0}, {0})
    /\ retry = RetryIdle
    /\ ConnInit({{}})
    /\ stager = NoStager

NextDispatch ==
    \/ server_dispatch_tcp(Main)
    \/ server_socket_poll(Main)
    \/ packet_receive_via_ssl(Main)
    \/ Tick
    \/ Signal
    \/ PeerSend

SpecDispatch == InitDispatch /\ [][NextDispatch]_vars

\* the dispatch thread keeps running
DispatchThread ==
    server_dispatch_tcp(Main) \/ server_socket_poll(Main) \/ packet_receive_via_ssl(Main)

FairDispatch ==
    InitDispatch /\ [][NextDispatch]_vars /\ WF_vars(DispatchThread) /\ WF_vars(Tick)

(***************************************************************************)
(* SpecRetry: one run of a reverse-connect retry loop.                     *)
(***************************************************************************)
InitRetry ==
    /\ ThreadsAt("retry_enter")
    /\ CodecInit({FALSE}, {[raw |-> 0, state |-> "open"]}, {<< >>}, TlsDown)
    /\ clock \in 0..MaxRetryStart
    /\ TransportInit({0, 1, RetryHorizon + MaxRetryWait + 1}, {0},
                     0..MaxRetryTotal, 0..MaxRetryWait)
    /\ retry \in { [RetryIdle EXCEPT !.kind = k, !.addresses = n] :
                     k \in {"reverse_tcp_run", "reverse_tcp6"}, n \in 1..MaxAddresses }
    /\ ConnInit({{}})
    /\ stager = NoStager

NextRetry == reverse_connect(Main) \/ RetryTick

SpecRetry == InitRetry /\ [][NextRetry]_vars

\* the thread keeps running and the clock keeps advancing
FairRetry ==
    InitRetry /\ [][NextRetry]_vars /\ WF_vars(reverse_connect(Main)) /\ WF_vars(RetryTick)

(***************************************************************************)
(* SpecConn: the transport's context through hand-over, reset and          *)
(* reconnect.                                                              *)
(***************************************************************************)
InitConn ==
    /\ ThreadsAt("conn_new")
    /\ CodecInit({FALSE}, {[raw |-> 0, state |-> "open"]}, {<< >>}, TlsDown)
    /\ clock = 0
    /\ TransportInit({0}, {0}, {0}, {0})
    /\ retry = RetryIdle
    /\ ConnInit({ S \in SUBSET Handles : S # {} })
    /\ stager \in Stagers(handles)

NextConn == Connection(Main)

SpecConn == InitConn /\ [][NextConn]_vars

(***************************************************************************)
(* SpecBind: one bind_tcp call in a process that has some handles open.    *)
(***************************************************************************)
InitBind ==
    /\ ThreadsAt("bind_enter")
    /\ CodecInit({FALSE}, {[raw |-> 0, state |-> "open"]}, {<< >>}, TlsDown)
    /\ clock = 0
    /\ TransportInit({0}, {0}, {0}, {0})
    /\ retry = RetryIdle
    /\ ConnInit({ S \in SUBSET Handles : Cardinality(S) < MaxHandles })
    /\ stager = NoStager

NextBind == bind_tcp(Main)

SpecBind == InitBind /\ [][NextBind]_vars

(***************************************************************************)
(* SpecConfigure: one configure_tcp_connection call, for each URL, on a    *)
(* new context and on contexts that hold a captured address.               *)
(***************************************************************************)
\* the stager's socket 8, accepted on the listening socket 4
StagedBind ==
    [NoStager EXCEPT
       !.sock = 2 * HandleStep,
       !.info = [h \in Handles |->
                   IF h = HandleStep
                   THEN [listening |-> TRUE, family |-> "AF_INET", port |-> 1, peer |-> 0]
                   ELSE IF h = 2 * HandleStep
                   THEN [listening |-> FALSE, family |-> "AF_INET", port |-> 1, peer |-> 2]
                   ELSE NotASocket]]

\* the contexts of a transport that was connected before: the captured address
\* of a bind and of a reverse connection, and in fd the previous connection's
\* socket (transport_reset_tcp leaves transport->ctx as it was) or the 0 that a
\* failed reconnect stored (line 1075)
CapturedCtxs ==
    { [fd |-> fd,
       sock_desc |-> [family |-> "AF_INET", port |-> 1, side |-> side, socket |-> h],
       sock_desc_size |-> SockDescSize("AF_INET"),
       bound |-> side = "local"] :
        side \in {"local", "peer"}, h \in {HandleStep}, fd \in {0, 2 * HandleStep} }

InitConfigure ==
    /\ ThreadsAt("cfg_enter")
    /\ CodecInit({FALSE}, {[raw |-> 1, state |-> "open"]}, {<< >>}, TlsDown)
    /\ clock = 0
    /\ TransportInit({0, RetryHorizon + MaxRetryWait + 1}, {0}, {0, 1}, {1})
    /\ retry = RetryIdle
    /\ ctx \in {ZeroCtx} \cup CapturedCtxs
    /\ handles \in IF ctx = ZeroCtx THEN {{HandleStep, 2 * HandleStep}}
                    ELSE SUBSET ({ctx.fd} \ {0})
    /\ reset = ResetNone
    /\ bindcall = BindIdle
    /\ stager = StagedBind
    /\ cfg \in { [CfgIdle EXCEPT !.url = u] : u \in Urls }

NextConfigure == configure_tcp_connection(Main) \/ RetryTick

SpecConfigure == InitConfigure /\ [][NextConfigure]_vars

(***************************************************************************)
(* Properties.                                                             *)
(***************************************************************************)
\* the positions inside the body of a codec operation: after its lock_acquire
\* and before its lock_release
CodecBodyLabels ==
    { "tx_rid", "tx_crypt", "tx_hdr", "tx_hdr_check", "tx_pay", "tx_pay_check",
      "tx_finish", "poll_select", "flush_select", "flush_recv", "flush_release",
      "initssl_body", "destroyssl_body", "negotiate_setfd", "negotiate_connect",
      "negotiate_write", "negotiate_release", "recv_hdr", "recv_alloc", "recv_pay",
      "recv_finish" }

InBody(t) == pc[t] \in CodecBodyLabels

\* C1: at most one codec operation is inside its body at any time: a thread
\* inside a body holds remote->lock, which it acquired once on entry, and a
\* thread outside a body does not hold it and has released it exactly once for
\* the acquire of the call it returned from, on whichever path it returned.
C1_CodecOperationsExclude ==
    /\ \A t1, t2 \in Threads : InBody(t1) /\ InBody(t2) => t1 = t2
    /\ \A t \in Threads :
          InBody(t) => lock = t /\ lockCnt[t] = [acq |-> 1, rel |-> 0]
    /\ \A t \in Threads :
          ~InBody(t) => lock # t /\ lockCnt[t].rel = lockCnt[t].acq

\* the worker is in the payload loop of a transmit while the session thread,
\* back from an earlier codec operation, waits to enter a receive
C1_Witness ==
    /\ pc[Worker1] = "tx_pay"
    /\ pc[Main] = "recv_call"
    /\ lockCnt[Main] = [acq |-> 1, rel |-> 1]
    /\ lock = Worker1

\* the bytes of a sequence of wire entries
Vals(entries) == [i \in 1..Len(entries) |-> entries[i].val]

\* what transmit call k has put on the wire
WireOfCall(k) == SelectSeq(wire, LAMBDA e : e.call = k)
HeaderOnWire(k) == SelectSeq(wire, LAMBDA e : e.call = k /\ e.part = "h")
PayloadOnWire(k) == SelectSeq(wire, LAMBDA e : e.call = k /\ e.part = "p")

\* transmit call k has returned and every SSL_write of its frame took bytes
TxWritten(k) ==
    /\ txlog[k].done
    /\ txlog[k].ok
    /\ Len(txlog[k].hdr) = HeaderSize

\* C2: with threads transmitting concurrently, the bytes on the TLS session lie
\* in the order in which the calls acquired remote->lock, the bytes of one call
\* are contiguous with its header bytes before its payload bytes, and a call
\* whose writes all took bytes has put exactly its frame, header then payload,
\* on the wire.
C2_FramesNotInterleaved ==
    /\ \A i \in 1..(Len(wire) - 1) :
          /\ wire[i].call <= wire[i + 1].call
          /\ wire[i].call = wire[i + 1].call /\ wire[i].part = "p"
                => wire[i + 1].part = "p"
    /\ \A k \in 1..Len(txlog) :
          TxWritten(k) => Vals(WireOfCall(k)) = txlog[k].hdr \o txlog[k].pay

\* two threads have transmitted, one after the other in the order of txlog,
\* and both frames are on the wire in full
C2_Witness ==
    /\ Len(txlog) = 2
    /\ txlog[1].who # txlog[2].who
    /\ TxWritten(1) /\ TxWritten(2)
    /\ Len(wire) = Len(txlog[1].hdr) + Len(txlog[1].pay)
                     + Len(txlog[2].hdr) + Len(txlog[2].pay)

\* C3: for every packet transmit writes successfully, the length field on the
\* wire, read as a network-order uint32, is 8 plus the number of payload bytes
\* on the wire, without a cipher and with a ciphertext of another length.
C3_WireLengthField ==
    \A k \in 1..Len(txlog) :
        TxWritten(k) =>
            /\ Len(HeaderOnWire(k)) = HeaderSize
            /\ ntohl(SubSeq(Vals(HeaderOnWire(k)), 1, 4))
                 = HeaderSize + Len(PayloadOnWire(k))

\* a packet went through the cipher, which made its payload longer, and was
\* written in full
C3_Witness ==
    /\ cipher
    /\ \E k \in 1..Len(txlog) :
          /\ TxWritten(k)
          /\ txlog[k].pay # << >>
          /\ txlog[k].pay[1] = CipherPad
          /\ Len(PayloadOnWire(k)) = Len(txlog[k].pay)

\* C4: every packet that packet_receive_via_ssl hands to its caller has
\* payloadLength = ntohl(header.length) - 8.
C4_ReceivedLengthMatchesHeader ==
    \A i \in 1..Len(delivered) :
        delivered[i].payloadLength = ntohl(delivered[i].header.length) - HeaderSize

\* C5: after transport_reset_tcp the fd of transport->ctx is 0, the socket it
\* held is closed, and sock_desc, sock_desc_size and bound are as before.
C5_ResetClosesAndZeroes ==
    pc[Main] = "conn_reset" /\ reset.done =>
        /\ ctx.fd = 0
        /\ reset.before.fd \notin handles
        /\ ctx.sock_desc = reset.before.sock_desc
        /\ ctx.sock_desc_size = reset.before.sock_desc_size
        /\ ctx.bound = reset.before.bound

\* C6: in the retry loops no connect is attempted once the check after a failed
\* pass has found the time at or past expiration_end, nor once the check after
\* the sleep has found retry_total seconds elapsed since the loop started; and
\* with the clock advancing the loop returns.
C6_RetryBudgets ==
    /\ [](retry.expired \/ retry.spent => pc[Main] \in {"retry_out", "retry_returned"})
    /\ <>(pc[Main] = "retry_returned")

\* connect failed on every attempt and the loop ended on retry_total, before
\* the session's expiry
C6_Witness ==
    /\ pc[Main] = "retry_returned"
    /\ retry.spent /\ ~retry.expired /\ ~retry.connected
    /\ retry.attempts = MaxCountedAttempts
    /\ clock < transport.expiration_end

\* C7: when a poll times out with now - lastPacket greater than timeouts.comms,
\* the loop is left, the result and the returned status are ERROR_SUCCESS, and
\* command_handle was not called after lastPacket was taken.
C7_CommsTimeout ==
    disp.idle =>
        /\ pc[Main] \in {"disp_leave", "disp_returned"}
        /\ disp.result = ERROR_SUCCESS
        /\ pc[Main] = "disp_returned" => disp.ret = ERROR_SUCCESS
        /\ disp.handledAt <= disp.lastPacket

\* a packet was handled, then the peer went quiet for longer than
\* timeouts.comms and the dispatcher returned, with the session not expired
C7_Witness ==
    /\ disp.idle
    /\ disp.sawPacket
    /\ pc[Main] = "disp_returned"
    /\ clock <= transport.expiration_end

\* C8: once the time is past transport.expiration_end, server_dispatch_tcp
\* eventually returns.
C8_ExpiryEndsDispatch ==
    (clock > transport.expiration_end) ~> (pc[Main] = "disp_returned")

\* C9: when sigterm is found signalled at the top of an iteration, the loop is
\* left and the result and the returned status are ERROR_SUCCESS.
C9_SigtermReturnsSuccess ==
    disp.sigSeen =>
        /\ pc[Main] \in {"disp_leave", "disp_returned"}
        /\ disp.result = ERROR_SUCCESS
        /\ pc[Main] = "disp_returned" => disp.ret = ERROR_SUCCESS

\* the dispatcher handled a packet, saw a poll time out, then found sigterm
\* signalled and returned
C9_Witness ==
    /\ disp.sigSeen
    /\ disp.sawPacket /\ disp.sawTimeout
    /\ pc[Main] = "disp_returned"

\* C10 as stated: whenever server_dispatch_tcp has returned, scheduler_destroy and
\* then command_join_threads have been called, each exactly once.
C10_TeardownOnEveryReturn ==
    pc[Main] = "disp_returned" =>
        disp.teardown = << "scheduler_destroy", "command_join_threads" >>

\* C10, amended: whenever server_dispatch_tcp has returned after
\* scheduler_initialize succeeded, scheduler_destroy and then
\* command_join_threads have been called, each exactly once; when
\* scheduler_initialize failed it has returned that error with neither called.
C10_TeardownAfterLoop ==
    pc[Main] = "disp_returned" =>
        IF disp.scheduler = "failed"
        THEN disp.teardown = << >> /\ disp.ret # ERROR_SUCCESS
        ELSE disp.teardown = << "scheduler_destroy", "command_join_threads" >>

\* the dispatcher left its loop on a failed receive and returned after the
\* teardown
C10_Witness ==
    /\ pc[Main] = "disp_returned"
    /\ disp.scheduler = "destroyed"
    /\ disp.ret # ERROR_SUCCESS
    /\ Len(disp.teardown) = 2

\* C11: when bind_tcp returns, every listening socket it created is closed,
\* whichever of bind, listen and accept failed or whether accept succeeded; when
\* accept succeeded the result is ERROR_SUCCESS and the output buffer holds the
\* accepted socket, which is open; otherwise the output buffer holds no socket.
C11_BindClosesListeners ==
    pc[Main] = "bind_returned" =>
        /\ bindcall.created \cap handles \subseteq {bindcall.accepted}
        /\ bindcall.listenSocket \notin handles
        /\ bindcall.accepted # 0 =>
              /\ bindcall.ret = ERROR_SUCCESS
              /\ bindcall.socketBuffer = bindcall.accepted
              /\ bindcall.accepted \in handles
        /\ bindcall.accepted = 0 => bindcall.socketBuffer = 0

\* bind_tcp has returned an error after it made a listening socket
C11_Witness ==
    /\ pc[Main] = "bind_returned"
    /\ bindcall.created # {}
    /\ bindcall.ret # ERROR_SUCCESS

\* C12: packet_receive_via_ssl never calls decrypt on a frame whose header type
\* is PLAIN_REQUEST or PLAIN_RESPONSE, nor without a cipher, and a frame of
\* another type that it delivers with a cipher installed has gone through
\* decrypt.
C12_ReceiveCipherByType ==
    pc[Main] = "recv_finish" /\ Len(rx.header) = HeaderSize =>
        LET type == ntohl(SubSeq(rx.header, 5, 8))
            plain == type \in {PACKET_TLV_TYPE_PLAIN_REQUEST, PACKET_TLV_TYPE_PLAIN_RESPONSE}
        IN /\ rx.decrypted => cipher /\ ~plain
           /\ lastError[Main] = ERROR_SUCCESS /\ cipher /\ ~plain => rx.decrypted

\* C18: infer_staged_connection_type sets bound exactly when one of the 16
\* handles sock - 4*i is a listening socket of the family and the local port of
\* sock, for AF_INET and AF_INET6 alike; the first such handle ends the scan,
\* its address becomes sock_desc and it is the only socket closed.
C18_BoundIffListenerOnSamePort ==
    ctx.sock_desc_size > 0 =>
        LET name == GetSockName(stager.sock)
            Same(i) ==
                LET c == stager.sock - i * HandleStep
                IN /\ c \in stager.before
                   /\ stager.info[c] # NotASocket
                   /\ stager.info[c].listening
                   /\ stager.info[c].family = name.family
                   /\ stager.info[c].port = name.port
            same == { i \in 1..NumCandidates : Same(i) }
            first == CHOOSE i \in same : \A j \in same : i <= j
        IN /\ ctx.bound <=> same # {}
           /\ same = {} => stager.closed = 0
           /\ same # {} =>
                 /\ stager.closed = stager.sock - first * HandleStep
                 /\ ctx.sock_desc = GetSockName(stager.closed)

\* C19: once the probe has run, and after any reset and reconnect, a context
\* with bound set holds in sock_desc the local address of a socket that was
\* listening, and a context with bound clear holds the address of the peer of
\* the socket the previous stage handed over.
C19_SockDescAgreesWithBound ==
    ctx.sock_desc_size > 0 =>
        /\ ctx.sock_desc_size = SockDescSize(ctx.sock_desc.family)
        /\ ctx.bound =>
              /\ ctx.sock_desc.side = "local"
              /\ stager.info[ctx.sock_desc.socket].listening
              /\ ctx.sock_desc = GetSockName(ctx.sock_desc.socket)
        /\ ~ctx.bound => ctx.sock_desc = GetPeerName(stager.sock)

\* a reconnect has replaced the socket of a context whose address was captured
\* from the peer
C19_Witness ==
    /\ pc[Main] = "conn_up"
    /\ ~ctx.bound
    /\ ctx.sock_desc.side = "peer"
    /\ ctx.fd # stager.sock

\* C14: server_negotiate_ssl writes the cover line with one SSL_write, made
\* only once SSL_connect has returned 1; when SSL_set_fd or the handshake failed
\* nothing is written, and a cover write that fails or is short is not repeated.
C14_CoverLineWrittenOnce ==
    /\ neg.writes <= 1
    /\ pc[Main] = "negotiate_write" => neg.success /\ neg.ret = 1 /\ neg.writes = 0
    /\ pc[Main] = "negotiate_release" => (neg.writes = 1 <=> neg.success)
    /\ pc[Main] \in {"negotiate_setfd", "negotiate_connect"} => neg.writes = 0

\* server_negotiate_ssl has returned after a cover write that wrote nothing
C14_Witness ==
    /\ pc[Main] = "cfg_negotiated"
    /\ neg.writes = 1
    /\ neg.ret <= 0

\* C20: server_negotiate_ssl returns FALSE when SSL_set_fd fails, when
\* SSL_connect fails with an error other than want-read or want-write, and when
\* the cover write returns a negative value; it returns TRUE when the handshake
\* succeeded and the cover write returned 0 or more.
C20_NegotiateResult ==
    pc[Main] = "cfg_negotiated" =>
        (neg.success <=> neg.writes = 1 /\ neg.ret >= 0)

\* C15: whenever packet_transmit_via_ssl has returned, with success or after a
\* failed encrypt, header write or payload write, the packet of that call has
\* been destroyed exactly once and the caller has released remote->lock; inside
\* the call the packet has not been destroyed yet.
C15_TransmitDestroysAndReleases ==
    \A t \in Workers :
        /\ pc[t] = "idle" /\ tx[t].calls > 0 =>
              /\ tx[t].destroyed = 1
              /\ lock # t
              /\ lockCnt[t] = [acq |-> 1, rel |-> 1]
        /\ pc[t] # "idle" => tx[t].destroyed = 0

\* a transmit call has returned an error
C15_Witness ==
    \E t \in Workers :
        /\ pc[t] = "idle"
        /\ tx[t].calls > 0
        /\ tx[t].ret # ERROR_SUCCESS

IsPrefix(a, b) == Len(a) <= Len(b) /\ a = SubSeq(b, 1, Len(a))

C17_FailureReturnsOsError ==
    /\ pc[Main] = "retry_returned" /\ ~retry.connected =>
          retry.ret \in WsaErrors /\ retry.ret # ERROR_SUCCESS
    /\ pc[Main] = "bind_returned" /\ bindcall.accepted = 0 =>
          bindcall.ret \in WsaErrors /\ bindcall.ret # ERROR_SUCCESS

StartsWith(url, prefix) == Len(url) >= Len(prefix) /\ SubSeq(url, 1, Len(prefix)) = prefix

\* C13: configure_tcp_connection takes reverse-v6 for a URL that starts with
\* tcp6://, bind for tcp:// followed by ':', reverse-v4 for tcp:// followed by a
\* host, and for any other URL a reconnect from the captured address when the
\* context holds one (the bind flow when bound, the connect loop otherwise) and
\* the probe of the inherited socket when it holds none.
C13_ModeFollowsUrl ==
    pc[Main] # "cfg_enter" =>
        cfg.mode =
            IF StartsWith(cfg.url, << "t", "c", "p", "6", ":", "/", "/" >>)
            THEN "reverse_tcp6"
            ELSE IF StartsWith(cfg.url, << "t", "c", "p", ":", "/", "/", ":" >>)
            THEN "bind_tcp"
            ELSE IF StartsWith(cfg.url, << "t", "c", "p", ":", "/", "/" >>)
            THEN "reverse_tcp4"
            ELSE IF cfg.captured
            THEN IF ctx.bound THEN "reconnect_bind" ELSE "reconnect_reverse"
            ELSE "infer"

FlushLabels == { "flush_call", "flush_select", "flush_recv", "flush_release" }
InitSslLabels == { "initssl_call", "initssl_body" }
NegotiateLabels == { "negotiate_call", "negotiate_setfd", "negotiate_connect",
                     "negotiate_write", "negotiate_release" }

\* C21: configure_tcp_connection runs the establisher, server_socket_flush,
\* server_initialize_ssl and server_negotiate_ssl in this order: the flush
\* starts only after a successful establishment and before any TLS state
\* exists, the TLS calls start only after the flush has drained the socket,
\* server_negotiate_ssl runs only after server_initialize_ssl returned TRUE; a
\* failed establishment returns FALSE with nothing flushed and no TLS state, and
\* a failed server_initialize_ssl returns FALSE without any negotiation
C21_ConfigureOrder ==
    LET p == pc[Main]
        tls == InitSslLabels \cup {"cfg_inited"} \cup NegotiateLabels
                 \cup {"cfg_negotiated", "up"}
    IN /\ p \in FlushLabels \cup {"cfg_flushed"} \cup tls =>
            cfg.result = ERROR_SUCCESS /\ cfg.mode # "none"
       /\ p \in FlushLabels \cup {"cfg_flushed", "initssl_call"} =>
            neg = TlsDown /\ sslg.arrays = 0 /\ ~sslg.callbacks
       /\ p \in tls => sock.raw = 0 /\ fl.flushed > 0
       /\ p \in NegotiateLabels \cup {"cfg_negotiated", "up"} =>
            sslg.ret /\ sslg.callbacks /\ sslg.arrays = 1
       /\ p = "down" /\ cfg.result # ERROR_SUCCESS =>
            fl.flushed = 0 /\ sock.raw > 0 /\ neg = TlsDown /\ sslg.arrays = 0
       /\ p = "down" /\ cfg.result = ERROR_SUCCESS /\ ~sslg.ret =>
            neg = TlsDown /\ wire = << >> /\ fl.flushed > 0

\* server_initialize_ssl has failed after a flush that drained the socket, and
\* FALSE was returned
C21_Witness ==
    /\ pc[Main] = "down"
    /\ cfg.result = ERROR_SUCCESS /\ cfg.mode # "none"
    /\ ~sslg.ret /\ sslg.ssl_locks = "null"
    /\ fl.flushed > 0 /\ sock.raw = 0

\* C22: when an SSL_read returns 0 or a negative value before the 8 header
\* bytes are complete, or returns 0 or a negative value that is not retried as
\* would-block before the payload is complete, packet_receive_via_ssl sets
\* ERROR_NOT_FOUND and hands no packet to the caller; it then returns
\* ERROR_NOT_FOUND with the payload buffer freed, *packet unassigned and
\* remote->lock released
C22_FailedReadReturnsNotFound ==
    [][ LET readFailed ==
              /\ \/ pc[Main] = "recv_hdr"
                 \/ pc[Main] = "recv_pay" /\ rx.payloadBytesLeft # 0
              /\ pc'[Main] = "recv_finish"
            returns ==
              /\ pc[Main] = "recv_finish"
              /\ lastError[Main] = ERROR_NOT_FOUND
              /\ pc'[Main] # "recv_finish"
        IN /\ readFailed =>
                /\ lastError'[Main] = ERROR_NOT_FOUND
                /\ delivered' = delivered
                /\ lock' = Main
           /\ returns =>
                /\ rx'.ret = ERROR_NOT_FOUND
                /\ rx'.heap = {}
                /\ delivered' = delivered
                /\ lock' = NoThread
                /\ lockCnt'[Main].acq = lockCnt'[Main].rel ]_vars

\* a payload read has failed after part of the payload had arrived, with the
\* payload buffer allocated
C22_Witness ==
    /\ pc[Main] = "recv_finish"
    /\ lastError[Main] = ERROR_NOT_FOUND
    /\ rx.headerBytes = HeaderSize
    /\ "payload" \in rx.heap
    /\ Len(rx.payload) > 0 /\ rx.payloadBytesLeft # 0

\* no server_initialize_ssl or server_destroy_ssl call is in progress
TlsAtRest == pc[Main] \notin InitSslLabels \cup {"destroyssl_call", "destroyssl_body"}

\* C23: between calls the five lock callbacks are installed exactly when the
\* most recent of the init and deinit calls was a server_initialize_ssl that
\* returned TRUE (ssl_locks is then the array it allocated); once
\* server_destroy_ssl has returned no callback is installed and every lock array
\* allocated so far, with its locks, has been released exactly once
C23_CallbacksFollowLastCall ==
    TlsAtRest =>
       /\ sslg.callbacks <=> sslg.ssl_locks = "valid"
       /\ sslg.ssl_locks = "freed" => ~sslg.callbacks /\ sslg.freed = sslg.arrays

\* server_initialize_ssl has run twice without a server_destroy_ssl between,
\* and server_destroy_ssl has then returned
TlsInitTwiceDestroyOnce ==
    /\ pc[Main] = "down"
    /\ sslg.arrays = 2 /\ sslg.freed = 1
    /\ sslg.ssl_locks = "freed"

\* C24: server_dispatch_tcp leaves its loop when server_socket_poll returns a
\* negative value and when packet_receive_via_ssl returns an error; the value it
\* then returns is that poll result, respectively that receive error, and is
\* not ERROR_SUCCESS; on a failed receive command_handle is not called and
\* lastPacket keeps its value for that iteration
C24_DispatchLeavesOnFailure ==
    [][ LET p == IF pc'[Main] # pc[Main] THEN pc[Main] ELSE "waiting"
            quiet == /\ disp'.lastPacket = disp.lastPacket
                     /\ disp'.handledAt = disp.handledAt
                     /\ disp'.running = disp.running
                     /\ delivered' = delivered
        IN /\ p = "disp_polled" /\ poll < 0 =>
                /\ pc'[Main] = "disp_leave"
                /\ disp'.result = poll /\ disp'.result # ERROR_SUCCESS
                /\ quiet
           /\ p = "disp_received" /\ rx.ret # ERROR_SUCCESS =>
                /\ pc'[Main] = "disp_leave"
                /\ disp'.result = rx.ret
                /\ quiet
           /\ p = "disp_leave" =>
                /\ pc'[Main] = "disp_returned"
                /\ disp'.ret = disp.result
                /\ quiet ]_vars

\* the dispatcher has handled a packet and has then returned the error of a
\* later receive
C24_Witness ==
    /\ pc[Main] = "disp_returned"
    /\ disp.sawPacket
    /\ disp.ret = ERROR_NOT_FOUND /\ rx.ret = ERROR_NOT_FOUND
    /\ disp.scheduler = "destroyed"

\* the establishers that can fail: reverse_tcp4, reverse_tcp6, bind_tcp and the
\* two reconnects from a captured address
EstablisherModes ==
    { "reverse_tcp4", "reverse_tcp6", "bind_tcp", "reconnect_reverse", "reconnect_bind" }

\* C25: once configure_tcp_connection has returned FALSE because its
\* establisher failed, ctx.fd is 0 and transport_get_socket_tcp returns 0: not
\* the handle of a socket the establisher closed, nor the handle of the
\* previous connection
C25_FailedEstablishZeroesFd ==
    /\ pc[Main] = "down"
    /\ cfg.mode \in EstablisherModes
    /\ cfg.result # ERROR_SUCCESS
    => transport_get_socket_tcp = 0

\* the values of the wire bytes of a sequence of wire entries
WireVals(entries) == [i \in 1..Len(entries) |-> entries[i].val]

\* k is the latest transmit call of its thread and has returned
TxReturned(k) ==
    /\ txlog[k].done
    /\ tx[txlog[k].who].call = 0
    /\ \A j \in (k + 1)..Len(txlog) : txlog[j].who # txlog[k].who

\* C26: a packet_transmit_via_ssl call that returned ERROR_SUCCESS has written
\* all 8 header bytes and all payload bytes of its frame; a call whose header
\* was not written completely has written no payload byte and has not returned
\* ERROR_SUCCESS, and a call whose payload was not written completely has not
\* returned ERROR_SUCCESS
C26_SuccessMeansFrameWritten ==
    \A k \in 1..Len(txlog) :
       TxReturned(k) /\ Len(txlog[k].hdr) = HeaderSize =>
          LET ret == tx[txlog[k].who].ret
              hdr == WireVals(HeaderOnWire(k))
              pay == WireVals(PayloadOnWire(k))
          IN /\ ret = ERROR_SUCCESS => hdr = txlog[k].hdr /\ pay = txlog[k].pay
             /\ hdr # txlog[k].hdr => pay = << >> /\ ret # ERROR_SUCCESS
             /\ pay # txlog[k].pay => ret # ERROR_SUCCESS

\* the positions of a thread inside packet_transmit_via_ssl, remote->lock held
TxLabels == { "tx_rid", "tx_crypt", "tx_hdr", "tx_hdr_check", "tx_pay", "tx_pay_check",
              "tx_finish" }

\* C27: every call of packet_transmit_via_ssl returns and has by then released
\* remote->lock, whatever the SSL_write calls return, a payload write that
\* returns 0 or a negative value included
C27_TransmitTerminates ==
    \A t \in Workers : (pc[t] \in TxLabels) ~> (pc[t] = "idle" /\ lock # t)

\* C28: the payload buffer that packet_receive_via_ssl allocates, and the
\* payload bytes it reads into it, never exceed L, the length decoded from the
\* header, for every 32-bit L (the payload length is L - 8 modulo 2^32)
C28_PayloadWithinHeaderLength ==
    rx.headerBytes = HeaderSize /\ "payload" \in rx.heap =>
       LET L == ntohl(SubSeq(rx.header, 1, 4))
       IN /\ ~ULt(L, rx.payloadLength)
          /\ ~ULt(L, Len(rx.payload))

\* C29: a call of server_socket_flush on a socket with finitely many pending
\* bytes returns and has by then released remote->lock, whatever select and
\* recv return, socket errors included
C29_FlushReturns ==
    (pc[Main] \in FlushLabels) ~> (pc[Main] = "cfg_flushed" /\ lock # Main)

====
